---- MODULE Spec2Model ----
(***************************************************************************)
(* Path resolution and open/create dispatch of the sentry's file syscalls  *)
(* (pkg/sentry/syscalls/linux, sys_file.go): fileOpOn, fileOpAt, openAt    *)
(* and createAt, over a small naming graph of reference-counted dirents.   *)
(*                                                                         *)
(* A behaviour is one syscall: Openat draws its arguments, then the        *)
(* resolver and the operation's closure run step by step.  Every backend   *)
(* call the closure makes is appended to log; every reference taken or     *)
(* dropped is counted in refs.                                             *)
(***************************************************************************)
EXTENDS Integers, Sequences, FiniteSets, Bags, TLC

VARIABLES
    fsys,      \* the naming graph: children of each directory, attributes of each node
    fdTable,   \* the task's descriptor table: fd -> open file
    call,      \* the arguments of the syscall in progress
    pc,        \* the position of the syscall in progress
    loc,       \* the locals of fileOpOn / fileOpAt and of the closure
    deferred,  \* the closure's pending defers (last deferred is released first)
    refs,      \* references acquired / released by the resolver and by the closure
    log,       \* the backend calls made by the syscall, in order
    ret,       \* the syscall's result: fd and err
    task,      \* the calling task's context: its umask
    locks,     \* the advisory locks of an inode: its POSIX and its BSD lock set
    threads,   \* the tasks that take locks: where each is in Fcntl or Flock
    signals,   \* the signals sent to the calling task, in order
    rlimit,    \* the thread group's current file-size limit
    creds,     \* each task's credentials
    tracker,   \* an fdTracker, the Go heap its slices live in, and the lists it returned
    inodes     \* owner, mode bits and timestamps of each node

\* The state of the calling process that only some syscalls touch.
procVars == <<signals, rlimit, creds, tracker, inodes>>

\* The state outside the syscall in progress and the naming graph.
kernelVars == <<task, locks, threads, procVars>>

vars == <<fsys, fdTable, call, pc, loc, deferred, refs, log, ret, kernelVars>>

---------------------------------------------------------------------------
(* Constants of the Linux ABI used by the code. *)

MaxSymlinkTraversals == 40

AT_FDCWD == -100

OpenFlags == {"O_WRONLY", "O_CREAT", "O_EXCL", "O_NOFOLLOW", "O_TRUNC", "O_DIRECTORY"}

\* The longest file length a syscall asks for.
MaxLength == 3

\* limits.Infinity, the file-size limit of a thread group that has none:
\* above every length.
RLimInfinity == MaxLength + 1

\* A Go slice: the backing array it points into (0 for none), its length
\* and its capacity.  Every slice of the model starts at the first cell of
\* its array.
Slice(array, len, cap) == [array |-> array, len |-> len, cap |-> cap]

\* The nil slice, the zero value of fdTracker.fds.
NilSlice == Slice(0, 0, 0)

\* A new fdTracker in an empty heap.  heap is the sequence of the backing
\* arrays allocated so far; released holds, for each ReleaseFDs, the slice
\* handed to the caller (ret), its elements at that moment (fds) and the
\* fds added since the ReleaseFDs before it (added); added is the list of
\* the fds added since the last ReleaseFDs, all lists of values, not slices.
NoTracker ==
    [fds |-> NilSlice, heap |-> <<>>, released |-> <<>>, added |-> <<>>, calls |-> 0]

NoNode == "nil"

\* A linux.FileMode: its file type and its permission bits.
PermBits == {"u+rw", "g+w", "o+w"}

FileTypes == {"0", "S_IFREG", "S_IFIFO", "S_IFSOCK", "S_IFCHR", "S_IFDIR"}

FileMode(type, bits) == [type |-> type, bits |-> bits]

\* The mode of a call that passes none.
NoMode == FileMode("0", {})

---------------------------------------------------------------------------
(* Paths.  A path is whether it is absolute and its components; the raw    *)
(* string of a syscall argument also carries its trailing slashes.         *)

Path(abs, comps) == [abs |-> abs, comps |-> comps]

RootPath == Path(TRUE, <<>>)

DotPath == Path(FALSE, <<".">>)

EmptyPath == Path(FALSE, <<>>)

\* fs.TrimTrailingSlashes: the slashes are stripped and recorded, except
\* that "/" itself is left alone.
TrimTrailingSlashes(raw) ==
    [path |-> Path(raw.abs, raw.comps),
     changed |-> raw.slash /\ raw.comps # <<>>]

\* fs.SplitLast: "/" -> ("/", ""); no separator -> (".", path).
SplitLast(path) ==
    IF path.comps = <<>>
    THEN IF path.abs THEN [dir |-> RootPath, name |-> ""]
                     ELSE [dir |-> DotPath, name |-> "."]
    ELSE IF Len(path.comps) = 1
    THEN [dir |-> IF path.abs THEN RootPath ELSE DotPath, name |-> path.comps[1]]
    ELSE [dir |-> Path(path.abs, SubSeq(path.comps, 1, Len(path.comps) - 1)),
          name |-> path.comps[Len(path.comps)]]

\* copyInPath, lines 119-133.
copyInPath(raw, allowEmpty) ==
    IF raw.comps = <<>> /\ ~raw.abs /\ ~allowEmpty
    THEN [path |-> EmptyPath, dirPath |-> FALSE, err |-> "ENOENT"]
    ELSE LET t == TrimTrailingSlashes(raw)
         IN [path |-> t.path, dirPath |-> t.changed, err |-> "nil"]

---------------------------------------------------------------------------
(* The naming graph at the start of the syscall.                           *)

ChainLen == MaxSymlinkTraversals + 1

ChainName(i) == "c" \o ToString(i)

ChainNames == {ChainName(i) : i \in 1..ChainLen}

Attr(type, perm, size, link, target, tnode, rlerr) ==
    [type |-> type, perm |-> perm, size |-> size, link |-> link,
     target |-> target, tnode |-> tnode, rlerr |-> rlerr]

DirAttr(perm) == Attr("dir", perm, 0, "none", EmptyPath, NoNode, "nil")

RegAttr(perm, size) == Attr("reg", perm, size, "none", EmptyPath, NoNode, "nil")

\* A symlink the backend resolves only through its text (Getlink returns
\* ErrResolveViaReadlink).
LinkAttr(target) == Attr("symlink", {"r", "w", "x"}, 0, "readlink", target, NoNode, "nil")

\* A symlink the backend resolves directly to a dirent (Getlink succeeds).
DirectLinkAttr(tnode) == Attr("symlink", {"r", "w", "x"}, 0, "direct", EmptyPath, tnode, "nil")

RelTo(comps) == Path(FALSE, comps)

\* The chain c1 -> c2 -> ... -> c41 -> f: opening ck walks ChainLen + 1 - k links.
ChainTarget(n) ==
    LET i == CHOOSE j \in 1..ChainLen : ChainName(j) = n
    IN IF i = ChainLen THEN <<"f">> ELSE <<ChainName(i + 1)>>

InitAttr ==
    [n \in ChainNames |-> LinkAttr(RelTo(ChainTarget(n)))]
    @@ "root" :> DirAttr({"r", "w", "x"})
    @@ "w" :> DirAttr({"r", "w", "x"})
    @@ "rf" :> RegAttr({"r", "w"}, 1)
    @@ "wl" :> LinkAttr(RelTo(<<"w">>))
    @@ "f" :> RegAttr({"r", "w"}, 1)
    @@ "rof" :> RegAttr({"r"}, 1)
    @@ "sub" :> DirAttr({"r", "w", "x"})
    @@ "ro" :> DirAttr({"r", "x"})
    @@ "dang" :> LinkAttr(RelTo(<<"sub", "t">>))
    @@ "orphan" :> LinkAttr(RelTo(<<"nodir", "t">>))
    @@ "self" :> LinkAttr(RelTo(<<"self">>))
    @@ "direct" :> DirectLinkAttr("f")
    @@ "badlink" :> Attr("symlink", {"r", "w", "x"}, 0, "readlink", EmptyPath, NoNode, "EIO")
    @@ "broken" :> Attr("symlink", {"r", "w", "x"}, 0, "broken", EmptyPath, NoNode, "nil")

\* Every node is named after itself under its parent.
InitChildren ==
    "root" :> [n \in {"w", "rf", "wl"} |-> n]
    @@ "w" :> [n \in ChainNames \cup {"f", "rof", "sub", "ro", "dang", "orphan", "self",
                                     "direct", "badlink", "broken"} |-> n]
    @@ "sub" :> <<>>
    @@ "ro" :> <<>>

InitFsys == [attr |-> InitAttr, children |-> InitChildren]

\* The task's FSContext: root and working directory.
RootDirectory == "root"

WorkingDirectory == "w"

\* Descriptors open before the syscall: 3 is the directory w, 4 the regular file rf.
InitFdTable == 3 :> [id |-> "fd3", dirent |-> "w"] @@ 4 :> [id |-> "fd4", dirent |-> "rf"]

IsDir(fs, n) == fs.attr[n].type = "dir"

IsSymlink(fs, n) == fs.attr[n].type = "symlink"

---------------------------------------------------------------------------
(* The mount namespace's lookups.  FindInode resolves a path completely,   *)
(* FindLink stops at a final symlink.  Each symlink hop needs one unit of  *)
(* the traversal budget; a hop with no budget left fails with ELOOP.       *)

Found(d, rem) == [d |-> d, err |-> "nil", rem |-> rem]

Failed(err, rem) == [d |-> NoNode, err |-> err, rem |-> rem]

\* What the walk from cur meets at the head of comps.  A symlink that is not
\* the final component, or is the final one under followFinal, is resolved
\* as MountNamespace.resolve does: a directly resolved node (Getlink)
\* replaces the link if budget is left; a link text (Readlink) costs one unit
\* of budget.
WalkCase(fs, cur, comps, followFinal, rem) ==
    IF comps = <<>> THEN "found"
    ELSE IF ~IsDir(fs, cur) THEN "ENOTDIR"
    ELSE IF Head(comps) = "." THEN "dot"
    ELSE IF Head(comps) \notin DOMAIN fs.children[cur] THEN "ENOENT"
    ELSE LET child == fs.children[cur][Head(comps)]
             a == fs.attr[child]
         IN IF ~(a.type = "symlink" /\ (Tail(comps) # <<>> \/ followFinal)) THEN "child"
            ELSE IF a.link \notin {"direct", "readlink"} THEN "EACCES"
            ELSE IF rem = 0 THEN "ELOOP"
            ELSE IF a.link = "direct" THEN "direct"
            ELSE IF a.rlerr # "nil" THEN a.rlerr
            ELSE "text"

RECURSIVE WalkFrom(_, _, _, _, _, _)

\* The walk from cur along comps.  A link text is walked from the link's
\* parent, or from root if it is absolute, before the walk goes on with the
\* remaining components.
WalkFrom(fs, root, cur, comps, followFinal, rem) ==
    LET k == WalkCase(fs, cur, comps, followFinal, rem)
    IN CASE k = "found" -> Found(cur, rem)
         [] k = "dot" -> WalkFrom(fs, root, cur, Tail(comps), followFinal, rem)
         [] k = "child" ->
                WalkFrom(fs, root, fs.children[cur][Head(comps)], Tail(comps), followFinal, rem)
         [] k = "direct" ->
                WalkFrom(fs, root, fs.attr[fs.children[cur][Head(comps)]].tnode, Tail(comps),
                         followFinal, rem)
         [] k = "text" ->
                WalkFrom(fs, root,
                         IF fs.attr[fs.children[cur][Head(comps)]].target.abs THEN root ELSE cur,
                         fs.attr[fs.children[cur][Head(comps)]].target.comps \o Tail(comps),
                         followFinal, rem - 1)
         [] OTHER -> Failed(k, rem)

FindInode(fs, root, rel, path, rem) ==
    WalkFrom(fs, root, IF path.abs THEN root ELSE rel, path.comps, TRUE, rem)

FindLink(fs, root, rel, path, rem) ==
    WalkFrom(fs, root, IF path.abs THEN root ELSE rel, path.comps, FALSE, rem)

---------------------------------------------------------------------------
(* The backend's inode operations, as far as the syscalls observe them.    *)

\* Inode.CheckPermission: every requested bit must be granted to the caller.
CheckPermission(fs, n, mask) == IF mask \subseteq fs.attr[n].perm THEN "nil" ELSE "EACCES"

\* flagsToPermissions: the access the open flags ask for.
flagsToPermissions(flags) ==
    (IF "O_WRONLY" \in flags THEN {"w"} ELSE {"r"})
    \cup (IF "O_TRUNC" \in flags THEN {"w"} ELSE {})

\* linuxToFlags, with LargeFile as openAt and createAt set it.
linuxToFlags(flags) ==
    (IF "O_WRONLY" \in flags THEN {"Write"} ELSE {"Read"})
    \cup (IF "O_DIRECTORY" \in flags THEN {"Directory"} ELSE {})
    \cup (IF "O_TRUNC" \in flags THEN {"Truncate"} ELSE {})
    \cup {"LargeFile"}

\* Inode.Truncate: directories fail EISDIR, other non-regular nodes EINVAL;
\* on a regular file the backend's own result (fault) decides.
TruncateErr(fs, n, fault) ==
    IF IsDir(fs, n) THEN "EISDIR"
    ELSE IF fs.attr[n].type # "reg" THEN "EINVAL"
    ELSE fault

Truncated(fs, n) == [fs EXCEPT !.attr[n].size = 0]

\* Dirent.Create: rejects a name that exists; otherwise the backend's own
\* result (fault) decides.
CreateErr(fs, parent, name, fault) ==
    IF name \in DOMAIN fs.children[parent] \/ name \in {"", ".", ".."} THEN "EEXIST" ELSE fault

NewNodeOf(parent, name) == parent \o "/" \o name

Created(fs, parent, name) ==
    LET n == NewNodeOf(parent, name)
    IN [attr |-> (n :> RegAttr({"r", "w"}, 0)) @@ fs.attr,
        children |-> [fs.children EXCEPT ![parent] = (name :> n) @@ @]]

\* syserror.ConvertIntr: an interrupted backend call becomes a restart.
ConvertIntr(err, intr) == IF err = "EINTR" THEN intr ELSE err

\* FDTable.NewFDFrom: the lowest free descriptor at or above the hint.
LowestFree(fdt, from) ==
    CHOOSE n \in from..(from + Cardinality(DOMAIN fdt)) :
        n \notin DOMAIN fdt /\ \A m \in from..(n - 1) : m \in DOMAIN fdt

---------------------------------------------------------------------------
(* Reference counting and the log of backend calls.                        *)

DirentRef(n) == "dirent:" \o n

FileRef(id) == "file:" \o id

Range(s) == {s[i] : i \in DOMAIN s}

BagOfSeq(s) == [x \in Range(s) |-> Cardinality({i \in DOMAIN s : s[i] = x})]

NoRefs == [acq |-> EmptyBag, rel |-> EmptyBag, cacq |-> EmptyBag, crel |-> EmptyBag]

\* The resolver (fileOpOn, fileOpAt) takes acq and drops rel.
ResolverRefs(r, acq, rel) ==
    [r EXCEPT !.acq = @ (+) BagOfSeq(acq), !.rel = @ (+) BagOfSeq(rel)]

\* The closure takes acq and drops rel.
ClosureRefs(r, acq, rel) ==
    [r EXCEPT !.cacq = @ (+) BagOfSeq(acq), !.crel = @ (+) BagOfSeq(rel)]

\* References of o the resolver holds now.
Held(r, o) == CopiesIn(o, r.acq) - CopiesIn(o, r.rel)

Ev(ev, node, name, ok, mask, size) ==
    [ev |-> ev, node |-> node, name |-> name, ok |-> ok, mask |-> mask, size |-> size,
     perms |-> {}]

\* A creating backend call, with the permissions it was handed.
WithPerms(e, perms) == [e EXCEPT !.perms = perms]

---------------------------------------------------------------------------
(* fileOpOn and fileOpAt.                                                  *)

\* The closure the syscall hands to the resolver.
ClosureEntry(op) == IF op = "createAt" THEN "createAt_loop" ELSE op \o "_fn"

\* A resolver that extracts the given FD for absolute paths too.
UsesFDAlways(dirFD, path) == dirFD # AT_FDCWD

\* The last branch of lines 73-80: the path is relative and dirFD is a
\* descriptor.
UsesFD(dirFD, path) == ~path.abs /\ dirFD # AT_FDCWD

\* fileOpOn up to the call of the closure: the anchor, the lookup, and the
\* references taken (acq) and dropped (rel) before fn runs or the error returns.
fileOpOn(fs, fdt, dirFD, path, resolve) ==
    LET useWd == ~path.abs /\ dirFD = AT_FDCWD
        useFd == UsesFD(dirFD, path)
    IN IF useFd /\ dirFD \notin DOMAIN fdt
       THEN [err |-> "EBADF", d |-> NoNode, rem |-> MaxSymlinkTraversals,
             acq |-> <<>>, rel |-> <<>>, looked |-> FALSE]
       ELSE IF useFd /\ ~IsDir(fs, fdt[dirFD].dirent)
       THEN [err |-> "ENOTDIR", d |-> NoNode, rem |-> MaxSymlinkTraversals,
             acq |-> <<FileRef(fdt[dirFD].id)>>, rel |-> <<FileRef(fdt[dirFD].id)>>,
             looked |-> FALSE]
       ELSE LET rel == IF useWd THEN WorkingDirectory
                       ELSE IF useFd THEN fdt[dirFD].dirent ELSE NoNode
                anchor == IF useWd THEN <<DirentRef(WorkingDirectory)>>
                          ELSE IF useFd THEN <<FileRef(fdt[dirFD].id)>> ELSE <<>>
                r == IF resolve
                     THEN FindInode(fs, RootDirectory, rel, path, MaxSymlinkTraversals)
                     ELSE FindLink(fs, RootDirectory, rel, path, MaxSymlinkTraversals)
            IN [err |-> r.err, d |-> r.d, rem |-> r.rem,
                acq |-> anchor \o <<DirentRef(RootDirectory)>>
                        \o (IF r.err = "nil" THEN <<DirentRef(r.d)>> ELSE <<>>),
                rel |-> <<DirentRef(RootDirectory)>> \o anchor,
                looked |-> TRUE]

\* fileOpOn, lines 63-113: resolve, then return the error or call fn(root, d, rem).
FileOpOn ==
    /\ pc = "fileOpOn"
    /\ LET r == fileOpOn(fsys, fdTable, call.dirFD, loc.path, loc.resolve)
       IN /\ refs' = ResolverRefs(refs, r.acq, r.rel)
          /\ IF r.err # "nil"
             THEN /\ ret' = [fd |-> 0, err |-> r.err]
                  /\ pc' = "done"
                  /\ loc' = [loc EXCEPT !.looked = r.looked]
             ELSE /\ loc' = [loc EXCEPT !.root = RootDirectory, !.d = r.d, !.parent = r.d,
                                        !.remainingTraversals = r.rem, !.cont = "on",
                                        !.looked = r.looked]
                  /\ pc' = ClosureEntry(call.op)
                  /\ ret' = ret
    /\ UNCHANGED <<fsys, fdTable, call, deferred, log>>
    /\ UNCHANGED kernelVars

\* A fileOpOn that forgets d.DecRef.
fileOpOnKeep(d) == <<>>

\* The references fileOpOn drops once fn has returned, line 114.
fileOpOnRelease(d) == <<DirentRef(d)>>

\* fileOpOn, lines 113-115: fn has returned.
FileOpOnReturn ==
    /\ pc = "fn_ret"
    /\ loc.cont = "on"
    /\ refs' = ResolverRefs(refs, <<>>, fileOpOnRelease(loc.d))
    /\ ret' = [fd |-> loc.fd, err |-> loc.ferr]
    /\ pc' = "done"
    /\ UNCHANGED <<fsys, fdTable, call, loc, deferred, log>>
    /\ UNCHANGED kernelVars

\* A fileOpAt that takes the working-directory fast path whatever dirFD is.
fileOpAtAnyFD(dirFD, path) ==
    LET s == SplitLast(path)
    IN [name |-> s.name, dir |-> s.dir,
        how |-> IF s.dir = RootPath THEN "root"
                ELSE IF s.dir = DotPath THEN "wd"
                ELSE "walk"]

\* fileOpAt's choice of path, lines 39-59: "root" and "wd" are the two fast
\* paths, "walk" resolves the parent path through fileOpOn.
fileOpAt(dirFD, path) ==
    LET s == SplitLast(path)
    IN [name |-> s.name, dir |-> s.dir,
        how |-> IF s.dir = RootPath THEN "root"
                ELSE IF s.dir = DotPath /\ dirFD = AT_FDCWD THEN "wd"
                ELSE "walk"]

\* fileOpAt, lines 37-59, up to the call of fn.
FileOpAt ==
    /\ pc = "fileOpAt"
    /\ LET a == fileOpAt(call.dirFD, call.path)
       IN CASE a.how = "root" ->
                 /\ refs' = ResolverRefs(refs, <<DirentRef(RootDirectory)>>, <<>>)
                 /\ loc' = [loc EXCEPT !.root = RootDirectory, !.d = RootDirectory,
                                       !.parent = RootDirectory, !.name = a.name,
                                       !.remainingTraversals = MaxSymlinkTraversals,
                                       !.cont = "at_root"]
                 /\ pc' = ClosureEntry(call.op)
            [] a.how = "wd" ->
                 /\ refs' = ResolverRefs(refs, <<DirentRef(WorkingDirectory),
                                                 DirentRef(RootDirectory)>>, <<>>)
                 /\ loc' = [loc EXCEPT !.root = RootDirectory, !.d = WorkingDirectory,
                                       !.parent = WorkingDirectory, !.name = a.name,
                                       !.remainingTraversals = MaxSymlinkTraversals,
                                       !.cont = "at_wd"]
                 /\ pc' = ClosureEntry(call.op)
            [] OTHER ->
                 /\ refs' = refs
                 /\ loc' = [loc EXCEPT !.path = a.dir, !.resolve = TRUE, !.name = a.name]
                 /\ pc' = "fileOpOn"
    /\ UNCHANGED <<fsys, fdTable, call, deferred, log, ret>>
    /\ UNCHANGED kernelVars

\* The references a fast path of fileOpAt drops once fn has returned.
fileOpAtRelease(cont) ==
    IF cont = "at_root" THEN <<DirentRef(RootDirectory)>>
    ELSE <<DirentRef(WorkingDirectory), DirentRef(RootDirectory)>>

\* fileOpAt, lines 43-45 and 51-54: fn has returned on a fast path.
FileOpAtReturn ==
    /\ pc = "fn_ret"
    /\ loc.cont \in {"at_root", "at_wd"}
    /\ refs' = ResolverRefs(refs, <<>>, fileOpAtRelease(loc.cont))
    /\ ret' = [fd |-> loc.fd, err |-> loc.ferr]
    /\ pc' = "done"
    /\ UNCHANGED <<fsys, fdTable, call, loc, deferred, log>>
    /\ UNCHANGED kernelVars

---------------------------------------------------------------------------
(* Tests the closures of openAt and createAt make.                         *)

\* A closure that goes on after a failed permission check.
DeniedIgnored(perm) == FALSE

\* `if err := CheckPermission(...); err != nil { return err }`, lines 151 and 403.
Denied(perm) == perm # "nil"

\* A closure that truncates on every write open.
WantsTruncateOrWrite(flags) == "O_TRUNC" \in flags \/ "O_WRONLY" \in flags

\* `if flags&linux.O_TRUNC != 0`, lines 187 and 410.
WantsTruncate(flags) == "O_TRUNC" \in flags

\* A loop that does not test O_EXCL.
ExclIgnored(flags) == FALSE

\* `if flags&linux.O_EXCL != 0`, line 342.
WantsExcl(flags) == "O_EXCL" \in flags

\* A loop that gives up one hop early.
NoBudgetOffByOne(rem) == rem <= 1

\* `if remainingTraversals == 0`, line 370.
NoBudget(rem) == rem = 0

\* A loop that forgets to count the hop.
NotDecremented(rem) == rem

\* `remainingTraversals--`, line 380 (a uint; the test of line 370 keeps it
\* from wrapping).
Decremented(rem) == rem - 1

---------------------------------------------------------------------------
(* openAt.                                                                 *)

\* A creation that hands the requested mode to the backend unmasked.
UmaskIgnored(mode, umask) == mode.bits

\* fs.FilePermsFromMode(mode &^ linux.FileMode(umask)), lines 232, 431, 1197:
\* the permission bits of the mode that the umask does not clear.
Masked(mode, umask) == mode.bits \ umask

\* What one run of a closure did: its error, the backend calls it made, the
\* file reference it took (dropped again by its defer when it returns),
\* the naming graph it left and whether it installed a descriptor.
Outcome(err, events, acq, fs, installed) ==
    [err |-> err, events |-> events, acq |-> acq, fs |-> fs, installed |-> installed]

\* An open that takes a path with a trailing slash for any file.
RefusesDirPathNever(fs, d, dirPath) == FALSE

\* `if dirPath { return ENOTDIR }` in the branch of a node that is no
\* directory, lines 167-175.
RefusesDirPath(fs, d, dirPath) == ~IsDir(fs, d) /\ dirPath

\* The closure of openAt, lines 144-208.  gf, tr and nf are the results of
\* the backend's GetFile and Truncate and of NewFDFrom.
openAtFn(fs, d, flags, dirPath, gf, tr, nf) ==
    LET resolve == "O_NOFOLLOW" \notin flags
        mask == flagsToPermissions(flags)
        perm == CheckPermission(fs, d, mask)
        fileFlags == linuxToFlags(flags)
        tErr == TruncateErr(fs, d, tr)
        file == <<FileRef(d)>>
        check == <<Ev("CheckPermission", d, "", perm = "nil", mask, 0)>>
        getfile == check \o <<Ev("GetFile", d, "", gf = "nil", fileFlags, 0)>>
        trunc == IF WantsTruncate(flags)
                 THEN getfile \o <<Ev("Truncate", d, "", tErr = "nil", {}, 0)>>
                 ELSE getfile
        fs2 == IF WantsTruncate(flags) THEN Truncated(fs, d) ELSE fs
        newfd == trunc \o <<Ev("NewFDFrom", d, "", nf = "nil", {}, 0)>>
    IN IF Denied(perm) THEN Outcome(perm, check, <<>>, fs, FALSE)
       ELSE IF IsSymlink(fs, d) /\ ~resolve THEN Outcome("ELOOP", check, <<>>, fs, FALSE)
       ELSE IF IsDir(fs, d) /\ "Write" \in fileFlags
       THEN Outcome("EISDIR", check, <<>>, fs, FALSE)
       ELSE IF ~IsDir(fs, d) /\ "Directory" \in fileFlags
       THEN Outcome("ENOTDIR", check, <<>>, fs, FALSE)
       ELSE IF RefusesDirPath(fs, d, dirPath) THEN Outcome("ENOTDIR", check, <<>>, fs, FALSE)
       ELSE IF gf # "nil"
       THEN Outcome(ConvertIntr(gf, "ERESTARTSYS"), getfile, <<>>, fs, FALSE)
       ELSE IF WantsTruncate(flags) /\ tErr # "nil" THEN Outcome(tErr, trunc, file, fs, FALSE)
       ELSE IF nf # "nil" THEN Outcome(nf, newfd, file, fs2, FALSE)
       ELSE Outcome("nil", newfd \o <<Ev("InotifyEvent", d, "IN_OPEN", TRUE, {}, 0)>>,
                    file, fs2, TRUE)

GetFileResults == {"nil", "EINTR", "ENXIO"}

TruncateResults == {"nil", "EIO"}

CreateResults == {"nil", "ENOSPC"}

NewFDResults == {"nil", "EMFILE"}

\* The descriptor table after NewFDFrom(0, file) succeeded for the node.
Installed(fdt, node) == (LowestFree(fdt, 0) :> [id |-> node, dirent |-> node]) @@ fdt

\* A closure that returns without the deferred DecRef of its file.
CloseClosureLeak(o, node) ==
    /\ log' = log \o o.events
    /\ fsys' = o.fs
    /\ fdTable' = IF o.installed THEN Installed(fdTable, node) ELSE fdTable
    /\ refs' = ClosureRefs(refs, o.acq, deferred)
    /\ deferred' = <<>>
    /\ loc' = [loc EXCEPT !.ferr = o.err,
                          !.fd = IF o.installed THEN LowestFree(fdTable, 0) ELSE 0,
                          !.found = node]
    /\ pc' = "fn_ret"

\* A closure returns: its effects, its deferred releases, and back to the resolver.
CloseClosure(o, node) ==
    /\ log' = log \o o.events
    /\ fsys' = o.fs
    /\ fdTable' = IF o.installed THEN Installed(fdTable, node) ELSE fdTable
    /\ refs' = ClosureRefs(refs, o.acq, o.acq \o deferred)
    /\ deferred' = <<>>
    /\ loc' = [loc EXCEPT !.ferr = o.err,
                          !.fd = IF o.installed THEN LowestFree(fdTable, 0) ELSE 0,
                          !.found = node]
    /\ pc' = "fn_ret"

\* openAt's closure runs, lines 144-208.
OpenAtFn ==
    /\ pc = "openAt_fn"
    /\ \E gf \in GetFileResults, tr \in TruncateResults, nf \in NewFDResults :
          CloseClosure(openAtFn(fsys, loc.d, call.flags, call.dirPath, gf, tr, nf), loc.d)
    /\ UNCHANGED <<call, ret>>
    /\ UNCHANGED kernelVars

---------------------------------------------------------------------------
(* createAt.                                                               *)

Step(kind, err, found, parent, name, rem, defers) ==
    [kind |-> kind, err |-> err, found |-> found, parent |-> parent, name |-> name,
     rem |-> rem, defers |-> defers]

\* One iteration of createAt's loop, lines 327-395: "return" leaves the
\* closure with err, "break" leaves the loop with err, "continue" repeats
\* with the parent and name of the symlink's target.  defers are the
\* references the iteration took and deferred the release of.
createAtLoop(fs, root, parent, name, rem, flags) ==
    LET fl == FindLink(fs, root, parent, RelTo(<<name>>), rem)
        found == fl.d
        a == fs.attr[found]
        s == SplitLast(a.target)
        np == FindInode(fs, root, parent, s.dir, Decremented(fl.rem))
        f == <<DirentRef(found)>>
    IN IF ~IsDir(fs, parent)
       THEN Step("return", "ENOTDIR", NoNode, parent, name, rem, <<>>)
       ELSE IF fl.err # "nil" THEN Step("break", fl.err, NoNode, parent, name, fl.rem, <<>>)
       ELSE IF WantsExcl(flags) THEN Step("return", "EEXIST", found, parent, name, fl.rem, f)
       ELSE IF ~IsSymlink(fs, found) THEN Step("break", "nil", found, parent, name, fl.rem, f)
       ELSE IF "O_NOFOLLOW" \in flags
       THEN Step("return", "ELOOP", found, parent, name, fl.rem, f)
       ELSE IF a.link = "direct"
       THEN Step("break", "nil", found, parent, name, fl.rem, f \o <<DirentRef(a.tnode)>>)
       ELSE IF a.link # "readlink"
       THEN Step("return", "EACCES", found, parent, name, fl.rem, f)
       ELSE IF NoBudget(fl.rem) THEN Step("return", "ELOOP", found, parent, name, fl.rem, f)
       ELSE IF a.rlerr # "nil"
       THEN Step("break", a.rlerr, found, parent, name, fl.rem, f)
       ELSE IF np.err # "nil" THEN Step("break", np.err, found, parent, name, np.rem, f)
       ELSE Step("continue", "nil", found, np.d, s.name, np.rem, f \o <<DirentRef(np.d)>>)

\* A return from the loop that runs only the defers of its own iteration.
returnDefersOwn(earlier, defers) == defers

\* The defers that run when the closure returns from inside the loop: those
\* of this iteration and of every iteration before it (lines 337, 362, 389).
returnDefers(earlier, defers) == earlier \o defers

\* createAt's loop, lines 327-395, one iteration.
CreateAtLoop ==
    /\ pc = "createAt_loop"
    /\ LET s == createAtLoop(fsys, loc.root, loc.parent, loc.name,
                             loc.remainingTraversals, call.flags)
       IN /\ loc' = [loc EXCEPT !.parent = s.parent, !.name = s.name, !.found = s.found,
                                !.remainingTraversals = s.rem, !.err = s.err,
                                !.ferr = IF s.kind = "return" THEN s.err ELSE @,
                                !.hops = IF s.kind = "continue" THEN @ + 1 ELSE @]
          /\ IF s.kind = "return"
             THEN /\ refs' = ClosureRefs(refs, s.defers, returnDefers(deferred, s.defers))
                  /\ deferred' = <<>>
                  /\ pc' = "fn_ret"
             ELSE /\ refs' = ClosureRefs(refs, s.defers, <<>>)
                  /\ deferred' = deferred \o s.defers
                  /\ pc' = IF s.kind = "break" THEN "createAt_open" ELSE "createAt_loop"
    /\ UNCHANGED <<fsys, fdTable, call, log, ret>>
    /\ UNCHANGED kernelVars

\* createAt after the loop, lines 397-460, with its result node.  gf, tr, cr
\* and nf are the results of the backend's GetFile, Truncate and Create and
\* of NewFDFrom.
createAtOpen(fs, parent, name, found, err, flags, perms, gf, tr, cr, nf) ==
    LET mask == flagsToPermissions(flags)
        fileFlags == linuxToFlags(flags)
        perm == CheckPermission(fs, found, mask)
        tErr == TruncateErr(fs, found, tr)
        check == <<Ev("CheckPermission", found, "", perm = "nil", mask, 0)>>
        trunc == IF WantsTruncate(flags)
                 THEN check \o <<Ev("Truncate", found, "", tErr = "nil", {}, 0)>>
                 ELSE check
        fs2 == IF WantsTruncate(flags) THEN Truncated(fs, found) ELSE fs
        getfile == trunc \o <<Ev("GetFile", found, "", gf = "nil", fileFlags, 0)>>
        pperm == CheckPermission(fs, parent, {"w", "x"})
        cErr == CreateErr(fs, parent, name, cr)
        new == NewNodeOf(parent, name)
        pcheck == <<Ev("CheckPermission", parent, "", pperm = "nil", {"w", "x"}, 0)>>
        create == pcheck \o <<WithPerms(Ev("Create", parent, name, cErr = "nil", fileFlags, 0),
                                        perms)>>
        Install(events, node, fs3) ==
            IF nf # "nil"
            THEN [o |-> Outcome(nf, events \o <<Ev("NewFDFrom", node, "", FALSE, {}, 0)>>,
                                <<FileRef(node)>>, fs3, FALSE),
                  node |-> node]
            ELSE [o |-> Outcome("nil",
                                events \o <<Ev("NewFDFrom", node, "", TRUE, {}, 0),
                                            Ev("InotifyEvent", node, "IN_OPEN", TRUE, {}, 0)>>,
                                <<FileRef(node)>>, fs3, TRUE),
                  node |-> node]
        Fail(e, events, fs3) == [o |-> Outcome(e, events, <<>>, fs3, FALSE), node |-> found]
    IN IF err = "nil"
       THEN IF Denied(perm) THEN Fail(perm, check, fs)
            ELSE IF WantsTruncate(flags) /\ tErr # "nil" THEN Fail(tErr, trunc, fs)
            ELSE IF gf # "nil" THEN Fail(ConvertIntr(gf, "ERESTARTSYS"), getfile, fs2)
            ELSE Install(getfile, found, fs2)
       ELSE IF err = "ENOENT"
       THEN IF Denied(pperm) THEN Fail(pperm, pcheck, fs)
            ELSE IF cErr # "nil" THEN Fail(cErr, create, fs)
            ELSE Install(create, new, Created(fs, parent, name))
       ELSE Fail(err, <<>>, fs)

\* createAt after the loop, lines 397-460.
CreateAtOpen ==
    /\ pc = "createAt_open"
    /\ \E gf \in GetFileResults, tr \in TruncateResults,
          cr \in CreateResults, nf \in NewFDResults :
          LET r == createAtOpen(fsys, loc.parent, loc.name, loc.found, loc.err,
                                call.flags, Masked(call.mode, task.umask),
                                gf, tr, cr, nf)
          IN CloseClosure(r.o, r.node)
    /\ UNCHANGED <<call, ret>>
    /\ UNCHANGED kernelVars

---------------------------------------------------------------------------
(* Advisory locks.  An inode has two lock sets, LockCtx.Posix and           *)
(* LockCtx.BSD; a lock set records, for each byte of the file, the owners  *)
(* holding a read lock and the owner holding the write lock.               *)

Threads == {"t1", "t2"}

\* The bytes of the file; the last one stands for everything up to LockEOF.
LockCells == {0, 1}

\* lock.LockRange{Start: 0, End: lock.LockEOF}
WholeFile == LockCells

\* The ranges lock.ComputeRange yields for the requests made.
PosixRanges == {{0}}

NoOwner == "none"

FreeCell == [readers |-> {}, writer |-> NoOwner]

NoLocks == [posix |-> [c \in LockCells |-> FreeCell], bsd |-> [c \in LockCells |-> FreeCell]]

\* The owners with a lock on the cell.
HoldersOf(cell) == cell.readers \cup ({cell.writer} \ {NoOwner})

\* lock.Locks: a request conflicts with a write lock of another owner, and
\* a write request also with a read lock of another owner.
Conflicts(ls, owner, type, rng) ==
    \E c \in rng :
       \/ ls[c].writer \notin {NoOwner, owner}
       \/ type = "WriteLock" /\ ls[c].readers \ {owner} # {}

\* lock.Locks: the lock set once the owner's request is granted: the range
\* is the owner's with the requested type, replacing what it held there.
Locked(ls, owner, type, rng) ==
    [c \in LockCells |->
        IF c \notin rng THEN ls[c]
        ELSE IF type = "WriteLock"
        THEN [readers |-> ls[c].readers \ {owner}, writer |-> owner]
        ELSE [readers |-> ls[c].readers \cup {owner},
              writer |-> IF ls[c].writer = owner THEN NoOwner ELSE ls[c].writer]]

\* lock.Locks.UnlockRegion: the owner holds nothing in the range.
Unlocked(ls, owner, rng) ==
    [c \in LockCells |->
        IF c \notin rng THEN ls[c]
        ELSE [readers |-> ls[c].readers \ {owner},
              writer |-> IF ls[c].writer = owner THEN NoOwner ELSE ls[c].writer]]

\* t.FDTable(): every task has its own descriptor table.
FDTableOf(t) == "fdtable:" \o t

\* The open files of a task: 4 is the regular file rf opened read-write;
\* t1 has opened rf a second time, read-only, as 5; nothing else is open.
ThreadFiles(t) ==
    LET rw == 4 :> [id |-> FileRef(t \o ":4"), dirent |-> "rf", flags |-> {"Read", "Write"}]
        ro == 5 :> [id |-> FileRef(t \o ":5"), dirent |-> "rf", flags |-> {"Read"}]
    IN IF t = "t1" THEN rw @@ ro ELSE rw

NoWait == [ctx |-> "", owner |-> NoOwner, type |-> "", rng |-> {}]

\* A task outside a syscall: err is what its last syscall returned, file
\* counts the references the syscall in progress holds on its file.
IdleThread == [pc |-> "idle", wait |-> NoWait, err |-> "nil", file |-> 0]

IdleThreads == [t \in Threads |-> IdleThread]

\* The nodes the caller is not the owner of (and has no CAP_FOWNER over).
NotOwned == {"w", "f", "rof", "sub", "dang", "self", "direct"}

\* Credentials: real and effective ids, supplementary groups, permitted and
\* effective capabilities.
Credentials(ruid, euid, rgid, egid, groups, permitted, effective) ==
    [ruid |-> ruid, euid |-> euid, rgid |-> rgid, egid |-> egid, groups |-> groups,
     permitted |-> permitted, effective |-> effective]

\* auth.RootUID: the root user of the task's user namespace.
RootUID == "root"

\* The unprivileged user every task runs as unless a syscall's inputs say otherwise.
UserCreds == Credentials("alice", "alice", "staff", "staff", {"staff"}, {}, {})

InitCreds == [t \in Threads |-> UserCreds]

\* The task whose syscall is followed step by step.
Caller == "t1"

\* An inode's unstable attributes: owner, mode bits beyond the plain
\* permissions, bits granted to users other than the owner, timestamps.
UnstableAttr(uid, gid, mode, other, atime, mtime) ==
    [uid |-> uid, gid |-> gid, mode |-> mode, other |-> other, atime |-> atime,
     mtime |-> mtime]

\* Every node belongs to the unprivileged user, or to root if the caller
\* does not own it.
InitInodes ==
    [n \in DOMAIN InitAttr |->
        UnstableAttr(IF n \in NotOwned THEN RootUID ELSE UserCreds.euid, "staff", {}, {"r"},
                     "t0", "t0")]

---------------------------------------------------------------------------
(* The syscall.                                                            *)

\* The anchors: the working directory, an open directory (w), an open
\* regular file (rf) and a descriptor that is not open.
DirFDs == {AT_FDCWD, 3, 4, 5}

Raw(abs, comps, slash) == [abs |-> abs, comps |-> comps, slash |-> slash]

\* Names looked up in the working directory.
Targets == {"f", "rof", "sub", "ro", "dang", "orphan", "self", "direct", "badlink",
            "broken", "new", ChainName(1), ChainName(2)}

RawPaths ==
    {Raw(FALSE, <<n>>, sl) : n \in Targets, sl \in BOOLEAN}
    \cup {Raw(TRUE, <<"w", n>>, FALSE) : n \in Targets}
    \cup {Raw(TRUE, <<"wl", n>>, FALSE) : n \in {"f", "new", ChainName(2), ChainName(3)}}
    \cup {Raw(TRUE, <<n>>, sl) : n \in {"rf", "w", "newr"}, sl \in BOOLEAN}
    \cup {Raw(FALSE, c, FALSE) : c \in {<<>>, <<".">>, <<"nodir", "x">>, <<"f", "x">>}}

NoLoc ==
    [path |-> EmptyPath, resolve |-> FALSE, name |-> "", root |-> NoNode, d |-> NoNode,
     parent |-> NoNode, found |-> NoNode, remainingTraversals |-> 0, cont |-> "",
     err |-> "nil", ferr |-> "nil", fd |-> 0, looked |-> FALSE, hops |-> 0,
     target |-> NoNode, newParent |-> NoNode, newName |-> "", newCont |-> "",
     nested |-> FALSE]

\* fs.TimeSpec: for each of the two timestamps the time to set, whether it is
\* left out and whether it is set to the system time.
TimeSpec(ATime, ATimeOmit, ATimeSetSystemTime, MTime, MTimeOmit, MTimeSetSystemTime) ==
    [ATime |-> ATime, ATimeOmit |-> ATimeOmit, ATimeSetSystemTime |-> ATimeSetSystemTime,
     MTime |-> MTime, MTimeOmit |-> MTimeOmit, MTimeSetSystemTime |-> MTimeSetSystemTime]

\* defaultSetToSystemTimeSpec, lines 1879-1884; a time that was not given is
\* the zero time.
defaultSetToSystemTimeSpec == TimeSpec("zero", FALSE, TRUE, "zero", FALSE, TRUE)

NoCall ==
    [op |-> "idle", dirFD |-> AT_FDCWD, path |-> EmptyPath, dirPath |-> FALSE,
     flags |-> {}, mode |-> NoMode, newDirFD |-> AT_FDCWD, newPath |-> EmptyPath,
     resolve |-> FALSE, allowEmpty |-> FALSE, syscall |-> "", length |-> 0,
     times |-> <<>>, ts |-> defaultSetToSystemTimeSpec, offset |-> 0, allocMode |-> 0]

\* The umask of a task that never changed it (022).
DefaultUmask == {"g+w", "o+w"}

\* The mode a creating open asks for (0666).
OpenatMode == FileMode("0", PermBits)

Init ==
    /\ fsys = InitFsys
    /\ fdTable = InitFdTable
    /\ call = NoCall
    /\ pc = "idle"
    /\ loc = NoLoc
    /\ deferred = <<>>
    /\ refs = NoRefs
    /\ log = <<>>
    /\ ret = [fd |-> 0, err |-> "nil"]
    /\ task = [umask |-> DefaultUmask]
    /\ locks = NoLocks
    /\ threads = IdleThreads
    /\ signals = <<>>
    /\ rlimit = RLimInfinity
    /\ creds = InitCreds
    /\ tracker = NoTracker
    /\ inodes = InitInodes

\* Openat, lines 479-490, with the start of openAt (138-143) and of
\* createAt (306-318): copy the path in and pick the resolver.
Openat ==
    /\ pc = "idle"
    /\ \E dirFD \in DirFDs, raw \in RawPaths, flags \in SUBSET OpenFlags :
          /\ raw.abs => dirFD \in {AT_FDCWD, 5}
          /\ LET cp == copyInPath(raw, FALSE)
                 op == IF "O_CREAT" \in flags THEN "createAt" ELSE "openAt"
             IN /\ call' = [NoCall EXCEPT !.op = op, !.dirFD = dirFD, !.path = cp.path,
                                          !.dirPath = cp.dirPath, !.flags = flags,
                                          !.mode = IF op = "createAt" THEN OpenatMode
                                                   ELSE NoMode]
                /\ IF cp.err # "nil"
                   THEN /\ ret' = [fd |-> 0, err |-> cp.err]
                        /\ pc' = "done"
                        /\ loc' = loc
                   ELSE IF op = "createAt" /\ cp.dirPath
                   THEN /\ ret' = [fd |-> 0, err |-> "ENOENT"]
                        /\ pc' = "done"
                        /\ loc' = loc
                   ELSE /\ ret' = ret
                        /\ pc' = IF op = "createAt" THEN "fileOpAt" ELSE "fileOpOn"
                        /\ loc' = [loc EXCEPT !.path = cp.path,
                                              !.resolve = "O_NOFOLLOW" \notin flags]
    /\ UNCHANGED <<fsys, fdTable, deferred, refs, log>>
    /\ UNCHANGED kernelVars

Next ==
    \/ Openat
    \/ FileOpAt
    \/ FileOpOn
    \/ OpenAtFn
    \/ CreateAtLoop
    \/ CreateAtOpen
    \/ FileOpOnReturn
    \/ FileOpAtReturn

Spec == Init /\ [][Next]_vars

---------------------------------------------------------------------------
(* creat, mknodat and mkdirat: the creating syscalls, for every requested  *)
(* mode and every umask.                                                   *)

\* Dirent.Create, CreateFifo and CreateDirectory: the naming graph with the
\* new node of the given type and permissions.
CreatedAs(fs, parent, name, type, perms) ==
    LET n == NewNodeOf(parent, name)
    IN [attr |-> (n :> Attr(type, IF "u+rw" \in perms THEN {"r", "w"} ELSE {}, 0,
                            "", EmptyPath, NoNode, "nil")) @@ fs.attr,
        children |-> [fs.children EXCEPT ![parent] = (name :> n) @@ @]]

\* The one-component path of a final name ("" names the directory itself).
NamePath(name) == Path(FALSE, IF name = "" THEN <<>> ELSE <<name>>)

\* The closure of mknodAt, lines 221-277.  cr is the backend's own result.
mknodAtFn(fs, d, name, mode, umask, cr) ==
    LET pperm == CheckPermission(fs, d, {"w", "x"})
        perms == Masked(mode, umask)
        cErr == CreateErr(fs, d, name, cr)
        new == NewNodeOf(d, name)
        pcheck == <<Ev("CheckPermission", d, "", pperm = "nil", {"w", "x"}, 0)>>
        create == pcheck \o <<WithPerms(Ev("Create", d, name, cErr = "nil",
                                           {"Read", "Write"}, 0), perms)>>
        fifo == pcheck \o <<WithPerms(Ev("CreateFifo", d, name, cErr = "nil", {}, 0), perms)>>
        Fail(e, events) == [o |-> Outcome(e, events, <<>>, fs, FALSE), node |-> NoNode]
    IN IF ~IsDir(fs, d) THEN Fail("ENOTDIR", <<>>)
       ELSE IF Denied(pperm) THEN Fail(pperm, pcheck)
       ELSE IF mode.type \in {"0", "S_IFREG"}
       THEN IF cErr # "nil" THEN Fail(cErr, create)
            ELSE [o |-> Outcome("nil", create, <<FileRef(new)>>,
                                CreatedAs(fs, d, name, "reg", perms), FALSE),
                  node |-> new]
       ELSE IF mode.type = "S_IFIFO"
       THEN IF cErr # "nil" THEN Fail(cErr, fifo)
            ELSE [o |-> Outcome("nil", fifo, <<>>, CreatedAs(fs, d, name, "fifo", perms), FALSE),
                  node |-> new]
       ELSE IF mode.type = "S_IFSOCK" THEN Fail("EOPNOTSUPP", pcheck)
       ELSE IF mode.type = "S_IFCHR" THEN Fail("EPERM", pcheck)
       ELSE Fail("EINVAL", pcheck)

\* mknodAt's closure runs, lines 221-277.
MknodAtFn ==
    /\ pc = "mknodAt_fn"
    /\ \E cr \in CreateResults :
          LET r == mknodAtFn(fsys, loc.d, loc.name, call.mode, task.umask, cr)
          IN CloseClosure(r.o, r.node)
    /\ UNCHANGED <<call, ret>>
    /\ UNCHANGED kernelVars

\* The closure of mkdirAt, lines 1174-1199.  cr is the backend's own result.
mkdirAtFn(fs, root, d, name, mode, umask, cr) ==
    LET f == FindInode(fs, root, d, NamePath(name), MaxSymlinkTraversals)
        pperm == CheckPermission(fs, d, {"w", "x"})
        perms == Masked(mode, umask)
        cErr == CreateErr(fs, d, name, cr)
        pcheck == <<Ev("CheckPermission", d, "", pperm = "nil", {"w", "x"}, 0)>>
        mkdir == pcheck \o <<WithPerms(Ev("CreateDirectory", d, name, cErr = "nil", {}, 0),
                                       perms)>>
        Fail(e, events, acq) == [o |-> Outcome(e, events, acq, fs, FALSE), node |-> NoNode]
    IN IF ~IsDir(fs, d) THEN Fail("ENOTDIR", <<>>, <<>>)
       ELSE IF f.err = "nil" THEN Fail("EEXIST", <<>>, <<DirentRef(f.d)>>)
       ELSE IF f.err = "EACCES" THEN Fail(f.err, <<>>, <<>>)
       ELSE IF Denied(pperm) THEN Fail(pperm, pcheck, <<>>)
       ELSE IF cErr # "nil" THEN Fail(cErr, mkdir, <<>>)
       ELSE [o |-> Outcome("nil", mkdir, <<>>, CreatedAs(fs, d, name, "dir", perms), FALSE),
             node |-> NewNodeOf(d, name)]

\* mkdirAt's closure runs, lines 1174-1199.
MkdirAtFn ==
    /\ pc = "mkdirAt_fn"
    /\ \E cr \in CreateResults :
          LET r == mkdirAtFn(fsys, loc.root, loc.d, loc.name, call.mode, task.umask, cr)
          IN CloseClosure(r.o, r.node)
    /\ UNCHANGED <<call, ret>>
    /\ UNCHANGED kernelVars

\* The paths handed to the creating syscalls.
MkPaths ==
    {Raw(FALSE, <<"new">>, sl) : sl \in BOOLEAN}
    \cup {Raw(FALSE, c, FALSE) : c \in {<<"f">>, <<"sub", "new">>, <<"ro", "new">>, <<"f", "x">>}}
    \cup {Raw(TRUE, <<"newr">>, FALSE)}

\* The start of a creating syscall: copy the path in, refuse a trailing
\* slash where the call does, and resolve the parent through fileOpAt.
Enter(op, dirFD, raw, flags, mode, refuseDirPath) ==
    LET cp == copyInPath(raw, FALSE)
    IN /\ call' = [NoCall EXCEPT !.op = op, !.dirFD = dirFD, !.path = cp.path,
                                 !.dirPath = cp.dirPath, !.flags = flags, !.mode = mode]
       /\ IF cp.err # "nil"
          THEN /\ ret' = [fd |-> 0, err |-> cp.err]
               /\ pc' = "done"
               /\ loc' = loc
          ELSE IF refuseDirPath /\ cp.dirPath
          THEN /\ ret' = [fd |-> 0, err |-> "ENOENT"]
               /\ pc' = "done"
               /\ loc' = loc
          ELSE /\ ret' = ret
               /\ pc' = "fileOpAt"
               /\ loc' = [loc EXCEPT !.path = cp.path, !.resolve = TRUE]
       /\ UNCHANGED <<fsys, fdTable, deferred, refs, log>>
       /\ UNCHANGED kernelVars

\* Creat, lines 493-498: createAt(AT_FDCWD, addr, O_WRONLY|O_TRUNC, mode).
Creat ==
    /\ pc = "idle"
    /\ \E raw \in MkPaths, bits \in SUBSET PermBits :
          Enter("createAt", AT_FDCWD, raw, {"O_WRONLY", "O_TRUNC"}, FileMode("0", bits), TRUE)

\* Mknodat, with mknodAt up to fileOpAt, lines 212-221.
Mknodat ==
    /\ pc = "idle"
    /\ \E dirFD \in {AT_FDCWD, 3}, raw \in MkPaths, type \in FileTypes, bits \in SUBSET PermBits :
          Enter("mknodAt", dirFD, raw, {}, FileMode(type, bits), TRUE)

\* Mkdirat, with mkdirAt up to fileOpAt, lines 1168-1174.
Mkdirat ==
    /\ pc = "idle"
    /\ \E dirFD \in {AT_FDCWD, 3}, raw \in MkPaths, bits \in SUBSET PermBits :
          Enter("mkdirAt", dirFD, raw, {}, FileMode("0", bits), FALSE)

\* A task with any umask, about to make one creating syscall.
MkInit ==
    /\ fsys = InitFsys
    /\ fdTable = InitFdTable
    /\ call = NoCall
    /\ pc = "idle"
    /\ loc = NoLoc
    /\ deferred = <<>>
    /\ refs = NoRefs
    /\ log = <<>>
    /\ ret = [fd |-> 0, err |-> "nil"]
    /\ task \in [umask : SUBSET PermBits]
    /\ locks = NoLocks
    /\ threads = IdleThreads
    /\ signals = <<>>
    /\ rlimit = RLimInfinity
    /\ creds = InitCreds
    /\ tracker = NoTracker
    /\ inodes = InitInodes

MkNext ==
    \/ Creat
    \/ Mknodat
    \/ Mkdirat
    \/ FileOpAt
    \/ FileOpOn
    \/ CreateAtLoop
    \/ CreateAtOpen
    \/ MknodAtFn
    \/ MkdirAtFn
    \/ FileOpOnReturn
    \/ FileOpAtReturn

MkSpec == MkInit /\ [][MkNext]_vars

---------------------------------------------------------------------------
(* Fcntl and Flock on the advisory locks.                                  *)

\* The outcome of LockRegionVFS1(owner, type, rng, blocker) at the call:
\* granted, refused (no blocker) or waiting (the blocker sleeps).
LockRegionVFS1(ls, owner, type, rng, blocking) ==
    IF ~Conflicts(ls, owner, type, rng)
    THEN [how |-> "granted", ls |-> Locked(ls, owner, type, rng)]
    ELSE [how |-> IF blocking THEN "waiting" ELSE "refused", ls |-> ls]

\* What a lock syscall does at the call: return err, or wait.
LockStep(err, ctx, ls, wait) == [err |-> err, ctx |-> ctx, ls |-> ls, wait |-> wait]

\* An F_SETLK that passes the task as blocker, as F_SETLKW does.
AlwaysBlocker(cmd) == TRUE

\* Fcntl, lines 1014, 1019, 1030, 1035: F_SETLKW passes the task as
\* lock.Blocker, F_SETLK passes nil.
PassesBlocker(cmd) == cmd = "F_SETLKW"

\* A flock that takes its lock in the inode's POSIX lock set.
FlockInPosix == "posix"

\* Flock, lines 2185-2207: the lock set flock works on, LockCtx.BSD.
FlockCtx == "bsd"

\* The lock requests fcntl makes: descriptor, command, flock.Type and range.
FcntlRequests ==
    [fd : {4}, cmd : {"F_SETLK", "F_SETLKW"}, type : {"F_RDLCK", "F_WRLCK", "F_UNLCK"},
     rng : PosixRanges]
    \cup [fd : {5}, cmd : {"F_SETLK"}, type : {"F_WRLCK"}, rng : PosixRanges]
    \cup [fd : {4}, cmd : {"F_SETLK"}, type : {"F_BADTYPE"}, rng : PosixRanges]

\* Fcntl's F_SETLK / F_SETLKW case, lines 924-928 and 955-1042, once the
\* request is copied in and its range computed.
fcntlLock(lk, t, r) ==
    LET files == ThreadFiles(t)
        file == files[r.fd]
        owner == FDTableOf(t)
        type == IF r.type = "F_RDLCK" THEN "ReadLock" ELSE "WriteLock"
        got == LockRegionVFS1(lk.posix, owner, type, r.rng, PassesBlocker(r.cmd))
        wait == [ctx |-> "posix", owner |-> owner, type |-> type, rng |-> r.rng]
    IN IF r.fd \notin DOMAIN files THEN LockStep("EBADF", "posix", lk.posix, NoWait)
       ELSE IF InitFsys.attr[file.dirent].type \notin {"reg", "dir"}
       THEN LockStep("EBADF", "posix", lk.posix, NoWait)
       ELSE IF r.type = "F_UNLCK"
       THEN LockStep("nil", "posix", Unlocked(lk.posix, owner, r.rng), NoWait)
       ELSE IF r.type \notin {"F_RDLCK", "F_WRLCK"}
       THEN LockStep("EINVAL", "posix", lk.posix, NoWait)
       ELSE IF r.type = "F_RDLCK" /\ "Read" \notin file.flags
       THEN LockStep("EBADF", "posix", lk.posix, NoWait)
       ELSE IF r.type = "F_WRLCK" /\ "Write" \notin file.flags
       THEN LockStep("EBADF", "posix", lk.posix, NoWait)
       ELSE IF got.how = "granted" THEN LockStep("nil", "posix", got.ls, NoWait)
       ELSE IF got.how = "refused" THEN LockStep("EAGAIN", "posix", lk.posix, NoWait)
       ELSE LockStep("nil", "posix", lk.posix, wait)

\* The requests flock makes: descriptor, operation and LOCK_NB.
FlockRequests ==
    [fd : {4, 5}, op : {"LOCK_EX", "LOCK_SH", "LOCK_UN"}, nb : BOOLEAN]
    \cup [fd : {4}, op : {"LOCK_MAND"}, nb : {TRUE}]

\* Flock, lines 2162-2214, up to the return or the wait.
flockLock(lk, t, r) ==
    LET files == ThreadFiles(t)
        owner == files[r.fd].id
        ls == lk[FlockCtx]
        type == IF r.op = "LOCK_SH" THEN "ReadLock" ELSE "WriteLock"
        got == LockRegionVFS1(ls, owner, type, WholeFile, ~r.nb)
        wait == [ctx |-> FlockCtx, owner |-> owner, type |-> type, rng |-> WholeFile]
    IN IF r.fd \notin DOMAIN files THEN LockStep("EBADF", FlockCtx, ls, NoWait)
       ELSE IF r.op = "LOCK_UN"
       THEN LockStep("nil", FlockCtx, Unlocked(ls, owner, WholeFile), NoWait)
       ELSE IF r.op \notin {"LOCK_EX", "LOCK_SH"} THEN LockStep("EINVAL", FlockCtx, ls, NoWait)
       ELSE IF got.how = "granted" THEN LockStep("nil", FlockCtx, got.ls, NoWait)
       ELSE IF got.how = "refused" THEN LockStep("EWOULDBLOCK", FlockCtx, ls, NoWait)
       ELSE LockStep("nil", FlockCtx, ls, wait)

\* The task returns from the call, or sleeps in LockRegionVFS1 holding its
\* reference on the file (the deferred file.DecRef runs at the return).
LockCall(t, s) ==
    /\ threads[t].pc = "idle"
    /\ locks' = [locks EXCEPT ![s.ctx] = s.ls]
    /\ threads' = [threads EXCEPT ![t] =
                      IF s.wait = NoWait
                      THEN [pc |-> "idle", wait |-> NoWait, err |-> s.err, file |-> 0]
                      ELSE [pc |-> "waiting", wait |-> s.wait, err |-> "nil", file |-> 1]]
    /\ UNCHANGED <<fsys, fdTable, call, pc, loc, deferred, refs, log, ret, task, procVars>>

FcntlCall(t, r) == LockCall(t, fcntlLock(locks, t, r))

\* Fcntl with F_SETLK or F_SETLKW, lines 921-928 and 955-1042.
Fcntl == \E t \in Threads, r \in FcntlRequests : FcntlCall(t, r)

FlockCall(t, r) == LockCall(t, flockLock(locks, t, r))

\* Flock, lines 2162-2214.
Flock == \E t \in Threads, r \in FlockRequests : FlockCall(t, r)

\* A blocking call that takes LockRegionVFS1's false for a grant.
WaitResultIgnored(granted) == "nil"

\* Lines 1019-1021 and 2190-2192: a blocking LockRegionVFS1 that returns
\* false was interrupted.
WaitResult(granted) == IF granted THEN "nil" ELSE "EINTR"

\* The sleeping task is woken by an unlock, finds no conflict left and is
\* granted the lock: LockRegionVFS1 returns true.
LockGranted(t) ==
    LET w == threads[t].wait
    IN /\ threads[t].pc = "waiting"
       /\ ~Conflicts(locks[w.ctx], w.owner, w.type, w.rng)
       /\ locks' = [locks EXCEPT ![w.ctx] = Locked(@, w.owner, w.type, w.rng)]
       /\ threads' = [threads EXCEPT ![t] =
                         [pc |-> "idle", wait |-> NoWait, err |-> WaitResult(TRUE), file |-> 0]]
       /\ UNCHANGED <<fsys, fdTable, call, pc, loc, deferred, refs, log, ret, task, procVars>>

LockWaitGranted == \E t \in Threads : LockGranted(t)

\* A signal interrupts the sleeping task: LockRegionVFS1 returns false
\* without having taken the lock.
LockInterrupted(t) ==
    /\ threads[t].pc = "waiting"
    /\ threads' = [threads EXCEPT ![t] =
                      [pc |-> "idle", wait |-> NoWait, err |-> WaitResult(FALSE), file |-> 0]]
    /\ UNCHANGED <<fsys, fdTable, call, pc, loc, deferred, refs, log, ret, task, locks, procVars>>

LockWaitInterrupted == \E t \in Threads : LockInterrupted(t)

LockInit ==
    /\ fsys = InitFsys
    /\ fdTable = InitFdTable
    /\ call = NoCall
    /\ pc = "idle"
    /\ loc = NoLoc
    /\ deferred = <<>>
    /\ refs = NoRefs
    /\ log = <<>>
    /\ ret = [fd |-> 0, err |-> "nil"]
    /\ task = [umask |-> DefaultUmask]
    /\ locks = NoLocks
    /\ threads = IdleThreads
    /\ signals = <<>>
    /\ rlimit = RLimInfinity
    /\ creds = InitCreds
    /\ tracker = NoTracker
    /\ inodes = InitInodes

LockNext ==
    \/ Fcntl
    \/ Flock
    \/ LockWaitGranted
    \/ LockWaitInterrupted

\* A sleeping task that can be granted its lock is woken.
LockSpec == LockInit /\ [][LockNext]_vars /\ \A t \in Threads : WF_vars(LockGranted(t))

---------------------------------------------------------------------------
(* rmdir, rename and link: the operations on names.                        *)

\* Dirent.MayDelete: the caller needs write and search permission on the
\* directory, and the name must exist in it.
MayDeleteErr(fs, d, name) ==
    IF CheckPermission(fs, d, {"w", "x"}) # "nil" THEN "EACCES"
    ELSE IF name \notin DOMAIN fs.children[d] THEN "ENOENT"
    ELSE "nil"

\* Dirent.RemoveDirectory: the name must be an empty directory; then the
\* backend's own result (fault) decides.
RemoveDirectoryErr(fs, d, name, fault) ==
    IF name \notin DOMAIN fs.children[d] THEN "ENOENT"
    ELSE IF ~IsDir(fs, fs.children[d][name]) THEN "ENOTDIR"
    ELSE IF DOMAIN fs.children[fs.children[d][name]] # {} THEN "ENOTEMPTY"
    ELSE fault

\* The naming graph without the entry name of d.
Removed(fs, d, name) ==
    LET old == fs.children[d]
    IN [fs EXCEPT !.children[d] = [n \in DOMAIN old \ {name} |-> old[n]]]

\* An rmdirAt that hands every final component to the backend.
RefusedNameNone(name) == "nil"

\* `switch name { case ".": EINVAL; case "..": ENOTEMPTY }`, lines 1237-1243.
RefusedName(name) ==
    IF name = "." THEN "EINVAL" ELSE IF name = ".." THEN "ENOTEMPTY" ELSE "nil"

RemoveResults == {"nil", "EIO"}

\* The closure of rmdirAt, lines 1231-1250.  rm is the backend's own result.
rmdirAtFn(fs, d, name, rm) ==
    LET md == MayDeleteErr(fs, d, name)
        rErr == RemoveDirectoryErr(fs, d, name, rm)
        may == <<Ev("MayDelete", d, name, md = "nil", {}, 0)>>
        remove == may \o <<Ev("RemoveDirectory", d, name, rErr = "nil", {}, 0)>>
    IN IF ~IsDir(fs, d) THEN Outcome("ENOTDIR", <<>>, <<>>, fs, FALSE)
       ELSE IF RefusedName(name) # "nil" THEN Outcome(RefusedName(name), <<>>, <<>>, fs, FALSE)
       ELSE IF md # "nil" THEN Outcome(md, may, <<>>, fs, FALSE)
       ELSE IF rErr # "nil" THEN Outcome(rErr, remove, <<>>, fs, FALSE)
       ELSE Outcome("nil", remove, <<>>, Removed(fs, d, name), FALSE)

\* rmdirAt's closure runs, lines 1231-1250.
RmdirAtFn ==
    /\ pc = "rmdirAt_fn"
    /\ \E rm \in RemoveResults :
          CloseClosure(rmdirAtFn(fsys, loc.d, loc.name, rm), NoNode)
    /\ UNCHANGED <<call, ret>>
    /\ UNCHANGED kernelVars

\* The paths handed to rmdir.
RmPaths ==
    {Raw(TRUE, <<>>, sl) : sl \in BOOLEAN}
    \cup {Raw(FALSE, <<"sub">>, sl) : sl \in BOOLEAN}
    \cup {Raw(FALSE, c, FALSE) :
            c \in {<<>>, <<".">>, <<"..">>, <<"f">>, <<"new">>, <<"sub", ".">>, <<"sub", "..">>,
                   <<"f", ".">>, <<"f", "..">>, <<"nodir", ".">>, <<"ro", "x">>}}
    \cup {Raw(TRUE, c, FALSE) : c \in {<<".">>, <<"..">>, <<"w">>, <<"w", "sub">>, <<"w", ".">>}}

\* Rmdir and Unlinkat(AT_REMOVEDIR), with rmdirAt up to fileOpAt, lines 1220-1231.
Rmdirat ==
    /\ pc = "idle"
    /\ \E dirFD \in {AT_FDCWD, 3, 4}, raw \in RmPaths :
          LET cp == copyInPath(raw, FALSE)
          IN /\ call' = [NoCall EXCEPT !.op = "rmdirAt", !.dirFD = dirFD, !.path = cp.path,
                                       !.dirPath = cp.dirPath]
             /\ IF cp.err # "nil"
                THEN /\ ret' = [fd |-> 0, err |-> cp.err]
                     /\ pc' = "done"
                     /\ loc' = loc
                ELSE IF cp.path = RootPath
                THEN /\ ret' = [fd |-> 0, err |-> "EBUSY"]
                     /\ pc' = "done"
                     /\ loc' = loc
                ELSE /\ ret' = ret
                     /\ pc' = "fileOpAt"
                     /\ loc' = [loc EXCEPT !.path = cp.path, !.resolve = TRUE]
    /\ UNCHANGED <<fsys, fdTable, deferred, refs, log>>
    /\ UNCHANGED kernelVars

\* The closure a closure hands to the resolver it calls itself.
NestedEntry(op) == op \o "_nested_fn"

\* A whole fileOpAt called from inside a closure, lines 37-59 with 63-113,
\* up to its call of fn: the parent, the final name, the references taken
\* (acq) and dropped (rel) by then, and how it goes on when fn has returned.
nestedFileOpAt(fs, fdt, dirFD, path) ==
    LET a == fileOpAt(dirFD, path)
        r == fileOpOn(fs, fdt, dirFD, a.dir, TRUE)
    IN CASE a.how = "root" ->
              [err |-> "nil", d |-> RootDirectory, name |-> a.name, cont |-> "at_root",
               acq |-> <<DirentRef(RootDirectory)>>, rel |-> <<>>]
         [] a.how = "wd" ->
              [err |-> "nil", d |-> WorkingDirectory, name |-> a.name, cont |-> "at_wd",
               acq |-> <<DirentRef(WorkingDirectory), DirentRef(RootDirectory)>>,
               rel |-> <<>>]
         [] OTHER ->
              [err |-> r.err, d |-> r.d, name |-> a.name, cont |-> "on",
               acq |-> r.acq, rel |-> r.rel]

\* The nested fileOpAt resolves the new path's parent: its error is the
\* error the outer closure returns, otherwise the nested closure is called.
NestedFileOpAt ==
    /\ pc = "nested_fileOpAt"
    /\ LET r == nestedFileOpAt(fsys, fdTable, call.newDirFD, call.newPath)
       IN /\ refs' = ResolverRefs(refs, r.acq, r.rel)
          /\ IF r.err # "nil"
             THEN /\ loc' = [loc EXCEPT !.ferr = r.err, !.nested = TRUE]
                  /\ pc' = "fn_ret"
             ELSE /\ loc' = [loc EXCEPT !.newParent = r.d, !.newName = r.name,
                                        !.newCont = r.cont, !.nested = TRUE]
                  /\ pc' = NestedEntry(call.op)
    /\ UNCHANGED <<fsys, fdTable, call, deferred, log, ret>>
    /\ UNCHANGED kernelVars

\* The nested closure returns to the nested resolver.
CloseNestedClosure(o) ==
    /\ log' = log \o o.events
    /\ fsys' = o.fs
    /\ loc' = [loc EXCEPT !.ferr = o.err]
    /\ pc' = "nested_fn_ret"
    /\ UNCHANGED <<fdTable, refs, deferred>>

\* The references the nested fileOpAt drops once its fn has returned.
nestedRelease(cont, d) == IF cont = "on" THEN fileOpOnRelease(d) ELSE fileOpAtRelease(cont)

\* The nested fileOpAt returns into the outer closure, which returns its result.
NestedFileOpAtReturn ==
    /\ pc = "nested_fn_ret"
    /\ refs' = ResolverRefs(refs, <<>>, nestedRelease(loc.newCont, loc.newParent))
    /\ pc' = "fn_ret"
    /\ UNCHANGED <<fsys, fdTable, call, loc, deferred, log, ret>>
    /\ UNCHANGED kernelVars

\* fs.Rename: the old name must exist and both parents be writable and
\* searchable; then the backend's own result (fault) decides.
RenameErr(fs, oldParent, oldName, newParent, newName, fault) ==
    IF oldName \notin DOMAIN fs.children[oldParent] THEN "ENOENT"
    ELSE IF CheckPermission(fs, oldParent, {"w", "x"}) # "nil" THEN "EACCES"
    ELSE IF CheckPermission(fs, newParent, {"w", "x"}) # "nil" THEN "EACCES"
    ELSE fault

\* The naming graph with the node of oldParent/oldName under newParent/newName.
Renamed(fs, oldParent, oldName, newParent, newName) ==
    LET node == fs.children[oldParent][oldName]
        gone == Removed(fs, oldParent, oldName)
    IN [gone EXCEPT !.children[newParent] = (newName :> node) @@ @]

\* A renameAt that lets the empty final component of "/" through.
RenameRefusesDots(name) == name \in {".", ".."}

\* `switch oldName { case "", ".", "..": return EBUSY }`, lines 2067-2070, and
\* the same switch on newName, lines 2080-2083.
RenameRefuses(name) == name \in {"", ".", ".."}

RenameResults == {"nil", "EIO"}

\* The outer closure of renameAt up to the nested fileOpAt, lines 2060-2072.
renameAtFn(fs, oldParent, oldName) ==
    IF ~IsDir(fs, oldParent) THEN "ENOTDIR"
    ELSE IF RenameRefuses(oldName) THEN "EBUSY"
    ELSE "nil"

\* renameAt's outer closure runs, lines 2060-2072.
RenameAtFn ==
    /\ pc = "renameAt_fn"
    /\ LET err == renameAtFn(fsys, loc.d, loc.name)
       IN IF err # "nil"
          THEN CloseClosure(Outcome(err, <<>>, <<>>, fsys, FALSE), NoNode)
          ELSE /\ pc' = "nested_fileOpAt"
               /\ UNCHANGED <<fsys, fdTable, loc, deferred, refs, log>>
    /\ UNCHANGED <<call, ret>>
    /\ UNCHANGED kernelVars

\* The nested closure of renameAt, lines 2072-2086.  rn is the backend's own
\* result.  The one call of fs.Rename is logged by its old side ("Rename")
\* and its new side ("RenameTo").
renameAtNestedFn(fs, oldParent, oldName, newParent, newName, rn) ==
    LET rErr == RenameErr(fs, oldParent, oldName, newParent, newName, rn)
        rename == <<Ev("Rename", oldParent, oldName, rErr = "nil", {}, 0),
                    Ev("RenameTo", newParent, newName, rErr = "nil", {}, 0)>>
    IN IF ~IsDir(fs, newParent) THEN Outcome("ENOTDIR", <<>>, <<>>, fs, FALSE)
       ELSE IF RenameRefuses(newName) THEN Outcome("EBUSY", <<>>, <<>>, fs, FALSE)
       ELSE IF rErr # "nil" THEN Outcome(rErr, rename, <<>>, fs, FALSE)
       ELSE Outcome("nil", rename, <<>>,
                    Renamed(fs, oldParent, oldName, newParent, newName), FALSE)

\* renameAt's nested closure runs, lines 2072-2086.
RenameAtNestedFn ==
    /\ pc = "renameAt_nested_fn"
    /\ \E rn \in RenameResults :
          CloseNestedClosure(renameAtNestedFn(fsys, loc.d, loc.name, loc.newParent,
                                              loc.newName, rn))
    /\ UNCHANGED <<call, ret>>
    /\ UNCHANGED kernelVars

\* The old and new paths handed to rename.
RenameOldPaths ==
    {Raw(TRUE, <<>>, FALSE)}
    \cup {Raw(FALSE, c, FALSE) :
            c \in {<<>>, <<"f">>, <<".">>, <<"..">>, <<"new">>, <<"sub", ".">>, <<"f", ".">>,
                   <<"f", "x">>, <<"nodir", "..">>, <<"ro", "x">>}}
    \cup {Raw(TRUE, c, FALSE) : c \in {<<"rf">>, <<"w", "sub">>, <<"w", "..">>}}

RenameNewPaths ==
    {Raw(TRUE, <<>>, FALSE)}
    \cup {Raw(FALSE, c, FALSE) :
            c \in {<<>>, <<"g">>, <<".">>, <<"..">>, <<"rof">>, <<"sub", "g">>, <<"sub", "..">>,
                   <<"f", ".">>, <<"nodir", ".">>, <<"ro", "g">>}}
    \cup {Raw(TRUE, c, FALSE) : c \in {<<"g">>, <<"w", "sub", "g">>, <<"w", ".">>}}

\* Rename and Renameat, with renameAt up to fileOpAt, lines 2050-2060.
Renameat ==
    /\ pc = "idle"
    /\ \E oldDirFD \in {AT_FDCWD, 3}, old \in RenameOldPaths,
          newDirFD \in {AT_FDCWD, 3, 4}, new \in RenameNewPaths :
          LET np == copyInPath(new, FALSE)
              op == copyInPath(old, FALSE)
          IN /\ call' = [NoCall EXCEPT !.op = "renameAt", !.dirFD = oldDirFD,
                                       !.path = op.path, !.newDirFD = newDirFD,
                                       !.newPath = np.path]
             /\ IF np.err # "nil"
                THEN /\ ret' = [fd |-> 0, err |-> np.err]
                     /\ pc' = "done"
                     /\ loc' = loc
                ELSE IF op.err # "nil"
                THEN /\ ret' = [fd |-> 0, err |-> op.err]
                     /\ pc' = "done"
                     /\ loc' = loc
                ELSE /\ ret' = ret
                     /\ pc' = "fileOpAt"
                     /\ loc' = [loc EXCEPT !.path = op.path, !.resolve = TRUE]
    /\ UNCHANGED <<fsys, fdTable, deferred, refs, log>>
    /\ UNCHANGED kernelVars

\* Inode.CheckOwnership.
CheckOwnership(n) == n \notin NotOwned

\* fs.IsRegular.
IsRegular(fs, n) == fs.attr[n].type = "reg"

\* A mayLinkAt that lets every target through.
mayLinkAtAlways(fs, target) == "nil"

\* mayLinkAt, lines 1312-1340.
mayLinkAt(fs, target) ==
    IF CheckOwnership(target) THEN "nil"
    ELSE IF ~IsRegular(fs, target) THEN "EPERM"
    ELSE IF CheckPermission(fs, target, {"r", "w"}) # "nil" THEN "EPERM"
    ELSE "nil"

\* Dirent.CreateHardLink: the new name must not exist and the target must
\* not be a directory; then the backend's own result (fault) decides.
CreateHardLinkErr(fs, newParent, newName, target, fault) ==
    IF newName \in DOMAIN fs.children[newParent] \/ newName \in {"", ".", ".."} THEN "EEXIST"
    ELSE IF IsDir(fs, target) THEN "EPERM"
    ELSE fault

\* The naming graph with target also under newParent/newName.
HardLinked(fs, newParent, newName, target) ==
    [fs EXCEPT !.children[newParent] = (newName :> target) @@ @]

LinkResults == {"nil", "EIO"}

\* The outer closure of linkAt up to the nested fileOpAt, lines 1384-1388.
LinkAtFn ==
    /\ pc = "linkAt_fn"
    /\ LET err == mayLinkAt(fsys, loc.d)
       IN IF err # "nil"
          THEN /\ CloseClosure(Outcome(err, <<>>, <<>>, fsys, FALSE), NoNode)
               /\ UNCHANGED <<call, ret>>
          ELSE /\ pc' = "nested_fileOpAt"
               /\ loc' = [loc EXCEPT !.target = loc.d]
               /\ UNCHANGED <<fsys, fdTable, deferred, refs, log, call, ret>>
    /\ UNCHANGED kernelVars

\* The nested closure of linkAt, lines 1368-1377 and 1390-1399.  hl is the
\* backend's own result.
linkAtNestedFn(fs, newParent, newName, target, hl) ==
    LET pperm == CheckPermission(fs, newParent, {"w", "x"})
        hErr == CreateHardLinkErr(fs, newParent, newName, target, hl)
        pcheck == <<Ev("CheckPermission", newParent, "", pperm = "nil", {"w", "x"}, 0)>>
        link == pcheck \o <<Ev("CreateHardLink", target, newName, hErr = "nil", {}, 0)>>
    IN IF ~IsDir(fs, newParent) THEN Outcome("ENOTDIR", <<>>, <<>>, fs, FALSE)
       ELSE IF Denied(pperm) THEN Outcome(pperm, pcheck, <<>>, fs, FALSE)
       ELSE IF hErr # "nil" THEN Outcome(hErr, link, <<>>, fs, FALSE)
       ELSE Outcome("nil", link, <<>>, HardLinked(fs, newParent, newName, target), FALSE)

\* linkAt's nested closure runs, lines 1368-1377 and 1390-1399.
LinkAtNestedFn ==
    /\ pc = "linkAt_nested_fn"
    /\ \E hl \in LinkResults :
          CloseNestedClosure(linkAtNestedFn(fsys, loc.newParent, loc.newName, loc.target, hl))
    /\ UNCHANGED <<call, ret>>
    /\ UNCHANGED kernelVars

\* linkAt with AT_EMPTY_PATH and an empty old path, lines 1358-1366: the
\* target is the file of oldDirFD, whose reference is held until linkAt returns.
LinkAtEmpty ==
    /\ pc = "linkAt_empty"
    /\ IF call.dirFD \notin DOMAIN fdTable
       THEN /\ ret' = [fd |-> 0, err |-> "EBADF"]
            /\ pc' = "done"
            /\ UNCHANGED <<loc, refs, deferred>>
       ELSE LET file == fdTable[call.dirFD]
                err == mayLinkAt(fsys, file.dirent)
            IN IF err # "nil"
               THEN /\ refs' = ClosureRefs(refs, <<FileRef(file.id)>>, <<FileRef(file.id)>>)
                    /\ ret' = [fd |-> 0, err |-> err]
                    /\ pc' = "done"
                    /\ loc' = [loc EXCEPT !.target = file.dirent]
                    /\ deferred' = deferred
               ELSE /\ refs' = ClosureRefs(refs, <<FileRef(file.id)>>, <<>>)
                    /\ deferred' = <<FileRef(file.id)>>
                    /\ loc' = [loc EXCEPT !.target = file.dirent, !.cont = "linkAt"]
                    /\ pc' = "nested_fileOpAt"
                    /\ ret' = ret
    /\ UNCHANGED <<fsys, fdTable, call, log>>
    /\ UNCHANGED kernelVars

\* linkAt returns from its AT_EMPTY_PATH branch, lines 1362 and 1367-1378:
\* the deferred target.DecRef runs.
LinkAtEmptyReturn ==
    /\ pc = "fn_ret"
    /\ loc.cont = "linkAt"
    /\ refs' = ClosureRefs(refs, <<>>, deferred)
    /\ deferred' = <<>>
    /\ ret' = [fd |-> 0, err |-> loc.ferr]
    /\ pc' = "done"
    /\ UNCHANGED <<fsys, fdTable, call, loc, log>>
    /\ UNCHANGED kernelVars

\* A Linkat that always follows a symlink named by the old path.
ResolveAlways(flags) == TRUE

\* `resolve := flags&linux.AT_SYMLINK_FOLLOW == linux.AT_SYMLINK_FOLLOW`, line 1438.
Resolve(flags) == "AT_SYMLINK_FOLLOW" \in flags

\* linkAt up to its resolver, lines 1345-1358 and 1382.
linkAt(syscall, oldDirFD, old, newDirFD, new, flags, resolve, allowEmpty) ==
    LET op == copyInPath(old, allowEmpty)
        np == copyInPath(new, FALSE)
        err == IF op.err # "nil" THEN op.err
               ELSE IF np.err # "nil" THEN np.err
               ELSE IF np.dirPath THEN "ENOENT"
               ELSE "nil"
    IN /\ call' = [NoCall EXCEPT !.op = "linkAt", !.syscall = syscall, !.dirFD = oldDirFD,
                                 !.path = op.path, !.newDirFD = newDirFD,
                                 !.newPath = np.path, !.dirPath = np.dirPath,
                                 !.flags = flags, !.resolve = resolve,
                                 !.allowEmpty = allowEmpty]
       /\ IF err # "nil"
          THEN /\ ret' = [fd |-> 0, err |-> err]
               /\ pc' = "done"
               /\ loc' = loc
          ELSE /\ ret' = ret
               /\ pc' = IF allowEmpty /\ op.path = EmptyPath THEN "linkAt_empty" ELSE "fileOpOn"
               /\ loc' = [loc EXCEPT !.path = op.path, !.resolve = resolve]

\* The old and new paths handed to link.
LinkOldPaths ==
    {Raw(FALSE, c, FALSE) :
        c \in {<<>>, <<"f">>, <<"rof">>, <<"sub">>, <<"ro">>, <<"dang">>, <<"self">>,
               <<"direct">>, <<ChainName(1)>>, <<"nodir", "x">>}}
    \cup {Raw(TRUE, c, FALSE) : c \in {<<"rf">>, <<"wl">>}}

LinkNewPaths ==
    {Raw(FALSE, <<"g">>, sl) : sl \in BOOLEAN}
    \cup {Raw(FALSE, c, FALSE) :
            c \in {<<>>, <<"f">>, <<"sub", "g">>, <<"ro", "g">>, <<"f", "g">>, <<"nodir", "g">>}}
    \cup {Raw(TRUE, c, FALSE) : c \in {<<"g">>, <<"wl", "g">>}}

\* Link, lines 1405-1417.
Link ==
    /\ pc = "idle"
    /\ \E old \in LinkOldPaths, new \in LinkNewPaths :
          linkAt("Link", AT_FDCWD, old, AT_FDCWD, new, {}, FALSE, FALSE)
    /\ UNCHANGED <<fsys, fdTable, deferred, refs, log>>
    /\ UNCHANGED kernelVars

LinkatFlags == {"AT_SYMLINK_FOLLOW", "AT_EMPTY_PATH", "AT_REMOVEDIR"}

\* Linkat, lines 1420-1446.  cap is whether the task has CAP_DAC_READ_SEARCH.
Linkat ==
    /\ pc = "idle"
    /\ \E oldDirFD \in {AT_FDCWD, 3, 4, 5}, old \in LinkOldPaths, newDirFD \in {AT_FDCWD, 3},
          new \in LinkNewPaths, flags \in SUBSET LinkatFlags, cap \in BOOLEAN :
          LET allowEmpty == "AT_EMPTY_PATH" \in flags
              early == IF flags \ {"AT_SYMLINK_FOLLOW", "AT_EMPTY_PATH"} # {} THEN "EINVAL"
                       ELSE IF allowEmpty /\ ~cap THEN "ENOENT"
                       ELSE "nil"
          IN IF early # "nil"
             THEN /\ call' = [NoCall EXCEPT !.op = "linkAt", !.syscall = "Linkat",
                                            !.flags = flags]
                  /\ ret' = [fd |-> 0, err |-> early]
                  /\ pc' = "done"
                  /\ loc' = loc
             ELSE linkAt("Linkat", oldDirFD, old, newDirFD, new, flags, Resolve(flags),
                         allowEmpty)
    /\ UNCHANGED <<fsys, fdTable, deferred, refs, log>>
    /\ UNCHANGED kernelVars

NameNext ==
    \/ Rmdirat
    \/ Renameat
    \/ Link
    \/ Linkat
    \/ FileOpAt
    \/ FileOpOn
    \/ RmdirAtFn
    \/ RenameAtFn
    \/ LinkAtFn
    \/ LinkAtEmpty
    \/ NestedFileOpAt
    \/ RenameAtNestedFn
    \/ LinkAtNestedFn
    \/ NestedFileOpAtReturn
    \/ LinkAtEmptyReturn
    \/ FileOpOnReturn
    \/ FileOpAtReturn

NameSpec == Init /\ [][NameNext]_vars

---------------------------------------------------------------------------
(* truncate and ftruncate.                                                 *)

\* fs.IsFile.
IsFile(fs, n) == fs.attr[n].type = "reg"

\* Inode.Truncate to a length.
TruncatedTo(fs, n, length) == [fs EXCEPT !.attr[n].size = length]

\* A limit test that lets a length equal to the limit through.
OverLimitStrict(length, limit) == length > limit

\* `uint64(length) >= t.ThreadGroup().Limits().Get(limits.FileSize).Cur`,
\* lines 1572 and 1635.
OverLimit(length, limit) == length >= limit

\* The closure of Truncate, lines 1580-1604.  tr is the backend's own result.
truncateFn(fs, d, length, tr) ==
    LET perm == CheckPermission(fs, d, {"w"})
        tErr == TruncateErr(fs, d, tr)
        check == <<Ev("CheckPermission", d, "", perm = "nil", {"w"}, 0)>>
        trunc == check \o <<Ev("Truncate", d, "", tErr = "nil", {}, length)>>
    IN IF IsDir(fs, d) THEN Outcome("EISDIR", <<>>, <<>>, fs, FALSE)
       ELSE IF ~IsFile(fs, d) THEN Outcome("EINVAL", <<>>, <<>>, fs, FALSE)
       ELSE IF Denied(perm) THEN Outcome(perm, check, <<>>, fs, FALSE)
       ELSE IF tErr # "nil" THEN Outcome(tErr, trunc, <<>>, fs, FALSE)
       ELSE Outcome("nil", trunc \o <<Ev("InotifyEvent", d, "IN_MODIFY", TRUE, {}, 0)>>,
                    <<>>, TruncatedTo(fs, d, length), FALSE)

\* Truncate's closure runs, lines 1580-1604.
TruncateFn ==
    /\ pc = "truncate_fn"
    /\ \E tr \in TruncateResults :
          CloseClosure(truncateFn(fsys, loc.d, call.length, tr), loc.d)
    /\ UNCHANGED <<call, ret>>
    /\ UNCHANGED kernelVars

\* The lengths handed to truncate and ftruncate.
Lengths == -1 .. MaxLength

\* The paths handed to truncate.
TruncPaths ==
    {Raw(FALSE, <<"f">>, sl) : sl \in BOOLEAN}
    \cup {Raw(FALSE, c, FALSE) :
            c \in {<<>>, <<"rof">>, <<"sub">>, <<"new">>, <<"pipe">>, <<"dang">>,
                   <<ChainName(1)>>, <<"nodir", "x">>}}
    \cup {Raw(TRUE, <<"rf">>, FALSE)}

\* Truncate, lines 1555-1580: the tests before the path is resolved.
Truncate ==
    /\ pc = "idle"
    /\ \E raw \in TruncPaths, length \in Lengths :
          LET cp == copyInPath(raw, FALSE)
              early == IF length < 0 THEN "EINVAL"
                       ELSE IF cp.err # "nil" THEN cp.err
                       ELSE IF cp.dirPath THEN "EINVAL"
                       ELSE IF OverLimit(length, rlimit) THEN "EFBIG"
                       ELSE "nil"
          IN /\ call' = [NoCall EXCEPT !.op = "truncate", !.path = cp.path,
                                       !.dirPath = cp.dirPath, !.length = length]
             /\ signals' = IF early = "EFBIG" THEN Append(signals, "SIGXFSZ") ELSE signals
             /\ IF early # "nil"
                THEN /\ ret' = [fd |-> 0, err |-> early]
                     /\ pc' = "done"
                     /\ loc' = loc
                ELSE /\ ret' = ret
                     /\ pc' = "fileOpOn"
                     /\ loc' = [loc EXCEPT !.path = cp.path, !.resolve = TRUE]
    /\ UNCHANGED <<fsys, fdTable, deferred, refs, log>>
    /\ UNCHANGED <<task, locks, threads, rlimit, creds, tracker, inodes>>

\* What Ftruncate does with the file of fd, lines 1614-1651: its outcome
\* and whether it sent SIGXFSZ.  tr is the backend's own result.
ftruncate(fs, fdt, fd, length, limit, tr) ==
    LET file == fdt[fd]
        d == file.dirent
        ref == <<FileRef(file.id)>>
        tErr == TruncateErr(fs, d, tr)
        trunc == <<Ev("Truncate", d, "", tErr = "nil", {}, length)>>
        Fail(e, acq, sig) == [o |-> Outcome(e, <<>>, acq, fs, FALSE), sig |-> sig]
    IN IF fd \notin DOMAIN fdt THEN Fail("EBADF", <<>>, FALSE)
       ELSE IF ~file.write THEN Fail("EINVAL", ref, FALSE)
       ELSE IF ~IsFile(fs, d) THEN Fail("EINVAL", ref, FALSE)
       ELSE IF length < 0 THEN Fail("EINVAL", ref, FALSE)
       ELSE IF OverLimit(length, limit) THEN Fail("EFBIG", ref, TRUE)
       ELSE IF tErr # "nil" THEN [o |-> Outcome(tErr, trunc, ref, fs, FALSE), sig |-> FALSE]
       ELSE [o |-> Outcome("nil",
                           trunc \o <<Ev("InotifyEvent", d, "IN_MODIFY", TRUE, {}, 0)>>,
                           ref, TruncatedTo(fs, d, length), FALSE),
             sig |-> FALSE]

\* The descriptors handed to ftruncate; 5 is not open.
TruncFDs == {3, 4, 5, 6, 7}

\* Ftruncate, lines 1608-1651; the deferred file.DecRef runs at every return
\* after GetFile.
Ftruncate ==
    /\ pc = "idle"
    /\ \E fd \in TruncFDs, length \in Lengths, tr \in TruncateResults :
          LET r == ftruncate(fsys, fdTable, fd, length, rlimit, tr)
          IN /\ call' = [NoCall EXCEPT !.op = "ftruncate", !.dirFD = fd, !.length = length]
             /\ log' = log \o r.o.events
             /\ fsys' = r.o.fs
             /\ refs' = ClosureRefs(refs, r.o.acq, r.o.acq)
             /\ signals' = IF r.sig THEN Append(signals, "SIGXFSZ") ELSE signals
             /\ ret' = [fd |-> 0, err |-> r.o.err]
             /\ pc' = "done"
    /\ UNCHANGED <<fdTable, loc, deferred>>
    /\ UNCHANGED <<task, locks, threads, rlimit, creds, tracker, inodes>>

\* The naming graph with a fifo in the working directory.
TruncFsys == CreatedAs(InitFsys, WorkingDirectory, "pipe", "fifo", {"u+rw"})

\* Open files: the directory w, rf and f open for writing, rof open
\* read-only, and the fifo open for writing.
TruncFdTable ==
    3 :> [id |-> "fd3", dirent |-> "w", write |-> FALSE]
    @@ 4 :> [id |-> "fd4", dirent |-> "rf", write |-> TRUE]
    @@ 6 :> [id |-> "fd6", dirent |-> "rof", write |-> FALSE]
    @@ 7 :> [id |-> "fd7", dirent |-> NewNodeOf(WorkingDirectory, "pipe"), write |-> TRUE]

\* The file-size limits of the thread group.
FileSizeLimits == {0, 2, RLimInfinity}

TruncInit ==
    /\ fsys = TruncFsys
    /\ fdTable = TruncFdTable
    /\ call = NoCall
    /\ pc = "idle"
    /\ loc = NoLoc
    /\ deferred = <<>>
    /\ refs = NoRefs
    /\ log = <<>>
    /\ ret = [fd |-> 0, err |-> "nil"]
    /\ task = [umask |-> DefaultUmask]
    /\ locks = NoLocks
    /\ threads = IdleThreads
    /\ signals = <<>>
    /\ rlimit \in FileSizeLimits
    /\ creds = InitCreds
    /\ tracker = NoTracker
    /\ inodes = InitInodes

TruncNext ==
    \/ Truncate
    \/ Ftruncate
    \/ FileOpOn
    \/ TruncateFn
    \/ FileOpOnReturn

TruncSpec == TruncInit /\ [][TruncNext]_vars

---------------------------------------------------------------------------
(* access and faccessat.                                                   *)

\* The capabilities a credentials set can hold.
AllCaps == {"CAP_CHOWN", "CAP_DAC_OVERRIDE", "CAP_FOWNER"}

\* Inode.CheckPermission under the credentials of the context it is handed:
\* CAP_DAC_OVERRIDE grants everything, the owner gets the owner's bits,
\* anybody else the bits of others.
CheckPermissionAs(c, fs, ino, n, mask) ==
    IF "CAP_DAC_OVERRIDE" \in c.effective THEN "nil"
    ELSE IF c.euid = ino[n].uid
    THEN (IF mask \subseteq fs.attr[n].perm THEN "nil" ELSE "EACCES")
    ELSE IF mask \subseteq ino[n].other THEN "nil" ELSE "EACCES"

\* An access check made with the task's effective credentials.
accessCredsEffective(c) == c

\* The credentials accessAt checks with, lines 542-549: a fork of the
\* task's, with the real ids as effective ids, and the permitted
\* capabilities as effective ones for root, none for anybody else.
accessCreds(c) ==
    [c EXCEPT !.euid = c.ruid, !.egid = c.rgid,
              !.effective = IF c.ruid = RootUID THEN c.permitted ELSE {}]

\* The closure of accessAt, lines 535-561.
accessAtFn(c, fs, ino, d, mode) ==
    LET perm == CheckPermissionAs(accessCreds(c), fs, ino, d, mode)
    IN Outcome(perm, <<Ev("CheckPermission", d, "accessContext", perm = "nil", mode, 0)>>,
               <<>>, fs, FALSE)

\* accessAt's closure runs, lines 535-561.
AccessAtFn ==
    /\ pc = "accessAt_fn"
    /\ CloseClosure(accessAtFn(creds[Caller], fsys, inodes, loc.d, call.flags), loc.d)
    /\ UNCHANGED <<call, ret>>
    /\ UNCHANGED kernelVars

\* The modes handed to access: every combination of R_OK, W_OK and X_OK, and
\* one with a bit outside them.
AccessModes == SUBSET {"r", "w", "x"} \cup {{"r", "other"}}

\* The paths handed to access.
AccessPaths ==
    {Raw(FALSE, c, FALSE) : c \in {<<>>, <<"f">>, <<"rof">>, <<"ro">>, <<"new">>}}
    \cup {Raw(TRUE, <<"rf">>, FALSE)}

\* Access and Faccessat, with accessAt up to fileOpOn, lines 523-535.
Faccessat ==
    /\ pc = "idle"
    /\ \E dirFD \in {AT_FDCWD, 3}, raw \in AccessPaths, mode \in AccessModes :
          LET cp == copyInPath(raw, FALSE)
              early == IF cp.err # "nil" THEN cp.err
                       ELSE IF mode \ {"r", "w", "x"} # {} THEN "EINVAL"
                       ELSE "nil"
          IN /\ call' = [NoCall EXCEPT !.op = "accessAt", !.dirFD = dirFD, !.path = cp.path,
                                       !.dirPath = cp.dirPath, !.flags = mode]
             /\ IF early # "nil"
                THEN /\ ret' = [fd |-> 0, err |-> early]
                     /\ pc' = "done"
                     /\ loc' = loc
                ELSE /\ ret' = ret
                     /\ pc' = "fileOpOn"
                     /\ loc' = [loc EXCEPT !.path = cp.path, !.resolve = TRUE]
    /\ UNCHANGED <<fsys, fdTable, deferred, refs, log>>
    /\ UNCHANGED kernelVars

\* The credentials of the calling task: plain users, root, set-uid
\* programs either way, and root with some or all capabilities dropped.
AccessCreds ==
    {Credentials(ruid, euid, "staff", "staff", {"staff"}, permitted, effective) :
        ruid \in {RootUID, "alice"}, euid \in {RootUID, "alice"},
        permitted \in {{}, {"CAP_CHOWN"}, AllCaps}, effective \in {{}, AllCaps}}

AccessInit ==
    /\ fsys = InitFsys
    /\ fdTable = InitFdTable
    /\ call = NoCall
    /\ pc = "idle"
    /\ loc = NoLoc
    /\ deferred = <<>>
    /\ refs = NoRefs
    /\ log = <<>>
    /\ ret = [fd |-> 0, err |-> "nil"]
    /\ task = [umask |-> DefaultUmask]
    /\ locks = NoLocks
    /\ threads = IdleThreads
    /\ signals = <<>>
    /\ rlimit = RLimInfinity
    /\ \E c \in AccessCreds :
          /\ c.effective \subseteq c.permitted
          /\ creds = [InitCreds EXCEPT ![Caller] = c]
    /\ tracker = NoTracker
    /\ inodes = InitInodes

AccessNext ==
    \/ Faccessat
    \/ FileOpOn
    \/ AccessAtFn
    \/ FileOpOnReturn

AccessSpec == AccessInit /\ [][AccessNext]_vars

---------------------------------------------------------------------------
(* chown: the function every chown syscall ends in, run by one task alone  *)
(* and by several tasks on the same file.                                  *)

\* auth.NoID: the uid or gid -1, "leave unchanged".
NoID == "NoID"

\* An id with no mapping in the task's user namespace.
Unmapped == "unmapped"

\* Inode.CheckCapability(t, CAP_CHOWN).
HasCapChown(c) == "CAP_CHOWN" \in c.effective

\* Credentials.InGroup.
InGroup(c, gid) == gid = c.egid \/ gid \in c.groups

\* A uid rule that lets the owner give the file away.
mayChownUIDOwner(hasCap, isOwner, isNoop) == hasCap \/ isOwner

\* `hasCap || (isOwner && isNoop)`, line 1695.
mayChownUID(hasCap, isOwner, isNoop) == hasCap \/ (isOwner /\ isNoop)

\* A gid rule that lets every group through.
mayChownGIDAlways(hasCap, isOwner, isNoop, isMemberGroup) == TRUE

\* `hasCap || (isOwner && (isNoop || isMemberGroup))`, line 1718.
mayChownGID(hasCap, isOwner, isNoop, isMemberGroup) ==
    hasCap \/ (isOwner /\ (isNoop \/ isMemberGroup))

\* The tests of chown on the attributes it read, lines 1678-1726: the error,
\* the owner to set and whether the privilege bits are to be cleared.
chownCheck(c, uattr, uid, gid) ==
    LET hasCap == HasCapChown(c)
        isOwner == uattr.uid = c.euid
        uidErr == IF uid = NoID THEN "nil"
                  ELSE IF uid = Unmapped THEN "EINVAL"
                  ELSE IF ~mayChownUID(hasCap, isOwner, uattr.uid = uid) THEN "EPERM"
                  ELSE "nil"
        gidErr == IF gid = NoID THEN "nil"
                  ELSE IF gid = Unmapped THEN "EINVAL"
                  ELSE IF ~mayChownGID(hasCap, isOwner, uattr.gid = gid, InGroup(c, gid))
                  THEN "EPERM"
                  ELSE "nil"
    IN [err |-> IF uidErr # "nil" THEN uidErr ELSE gidErr,
        owner |-> [uid |-> uid, gid |-> gid],
        clearPrivilege |-> (uid # NoID /\ uattr.uid # uid) \/ (gid # NoID /\ uattr.gid # gid)]

\* Inode.SetOwner: the ids of owner that are not NoID are written.
SetOwner(ino, d, owner) ==
    [ino EXCEPT ![d].uid = IF owner.uid = NoID THEN @ ELSE owner.uid,
                ![d].gid = IF owner.gid = NoID THEN @ ELSE owner.gid]

\* FilePermissions.HasSetUIDOrGID.
HasSetUIDOrGID(mode) == mode \cap {"S_ISUID", "S_ISGID"} # {}

\* FilePermissions.DropSetUIDAndMaybeGID.
DropSetUIDAndMaybeGID(mode) == mode \ {"S_ISUID", "S_ISGID"}

\* A chown that clears the privilege bits of directories too.
clearsPrivilegeOfDirs(clearPrivilege, mode, isDir) ==
    clearPrivilege /\ HasSetUIDOrGID(mode)

\* `clearPrivilege && uattr.Perms.HasSetUIDOrGID() && !fs.IsDir(...)`, line 1738.
clearsPrivilege(clearPrivilege, mode, isDir) ==
    clearPrivilege /\ HasSetUIDOrGID(mode) /\ ~isDir

\* A task outside chown.
NoChown ==
    [pc |-> "idle", d |-> NoNode, uid |-> NoID, gid |-> NoID, uattr |-> <<>>,
     owner |-> [uid |-> NoID, gid |-> NoID], clearPrivilege |-> FALSE, err |-> "nil"]

\* chown up to SetOwner, lines 1667-1729: t reads the attributes of d and
\* tests the request against them.  ua is the result of UnstableAttr.
ChownCall(t, d, uid, gid, ua) ==
    /\ threads[t].pc = "idle"
    /\ LET uattr == inodes[d]
           r == chownCheck(creds[t], uattr, uid, gid)
           err == IF ua # "nil" THEN ua ELSE r.err
       IN threads' = [threads EXCEPT ![t] =
                         [pc |-> IF err # "nil" THEN "done" ELSE "SetOwner",
                          d |-> d, uid |-> uid, gid |-> gid, uattr |-> uattr,
                          owner |-> r.owner, clearPrivilege |-> r.clearPrivilege,
                          err |-> err]]
    /\ UNCHANGED <<fsys, fdTable, call, pc, loc, deferred, refs, log, ret>>
    /\ UNCHANGED <<task, locks, procVars>>

\* chown, lines 1730-1738: t sets the owner it computed from the attributes
\* it read.  so is the backend's own result.
ChownSetOwner(t, so) ==
    /\ threads[t].pc = "SetOwner"
    /\ LET th == threads[t]
       IN /\ log' = Append(log, Ev("SetOwner", th.d, t, so = "nil", {}, 0))
          /\ inodes' = IF so = "nil" THEN SetOwner(inodes, th.d, th.owner) ELSE inodes
          /\ threads' = [threads EXCEPT
                ![t].err = so,
                ![t].pc = IF so # "nil" THEN "done"
                          ELSE IF clearsPrivilege(th.clearPrivilege, th.uattr.mode,
                                                  IsDir(fsys, th.d))
                          THEN "SetPermissions"
                          ELSE "done"]
    /\ UNCHANGED <<fsys, fdTable, call, pc, loc, deferred, refs, ret>>
    /\ UNCHANGED <<task, locks, signals, rlimit, creds, tracker>>

\* chown, lines 1739-1745: t writes the permissions it read, less the
\* privilege bits.  sp is the result of SetPermissions.
ChownSetPermissions(t, sp) ==
    /\ threads[t].pc = "SetPermissions"
    /\ LET th == threads[t]
           perms == DropSetUIDAndMaybeGID(th.uattr.mode)
       IN /\ log' = Append(log, WithPerms(Ev("SetPermissions", th.d, t, sp, {}, 0), perms))
          /\ inodes' = IF sp THEN [inodes EXCEPT ![th.d].mode = perms] ELSE inodes
          /\ threads' = [threads EXCEPT ![t].err = IF sp THEN "nil" ELSE "EPERM",
                                        ![t].pc = "done"]
    /\ UNCHANGED <<fsys, fdTable, call, pc, loc, deferred, refs, ret>>
    /\ UNCHANGED <<task, locks, signals, rlimit, creds, tracker>>

BackendResults == {"nil", "EIO"}

\* The files chown is called on: a regular file and a directory, both the
\* unprivileged user's.
ChownTargets == {"rf", "ro"}

ChownUIDs == {NoID, Unmapped, "alice", "bob"}

ChownGIDs == {NoID, Unmapped, "staff", "wheel", "audio"}

\* One task calls chown, with any request.
Chown ==
    \E d \in ChownTargets, uid \in ChownUIDs, gid \in ChownGIDs, ua \in BackendResults :
        ChownCall(Caller, d, uid, gid, ua)

SetOwnerStep == \E t \in Threads, so \in BackendResults : ChownSetOwner(t, so)

SetPermissionsStep == \E t \in Threads, sp \in BOOLEAN : ChownSetPermissions(t, sp)

\* The credentials of a task that calls chown: the file's owner or somebody
\* else, with or without CAP_CHOWN, member of the group wheel or not.
ChownCreds ==
    {Credentials(u, u, "staff", "staff", g, caps, caps) :
        u \in {"alice", "bob"}, g \in {{"staff"}, {"staff", "wheel"}},
        caps \in {{}, {"CAP_CHOWN"}}}

\* The mode bits of the files before chown.
ChownModes == {{}, {"S_ISUID"}, {"S_ISGID"}, {"S_ISUID", "S_ISGID", "o+r"}}

ChownInit ==
    /\ fsys = InitFsys
    /\ fdTable = InitFdTable
    /\ call = NoCall
    /\ pc = "idle"
    /\ loc = NoLoc
    /\ deferred = <<>>
    /\ refs = NoRefs
    /\ log = <<>>
    /\ ret = [fd |-> 0, err |-> "nil"]
    /\ task = [umask |-> DefaultUmask]
    /\ locks = NoLocks
    /\ threads = [t \in Threads |-> NoChown]
    /\ signals = <<>>
    /\ rlimit = RLimInfinity
    /\ creds \in [Threads -> ChownCreds]
    /\ tracker = NoTracker
    /\ \E mode \in ChownModes :
          inodes = [n \in DOMAIN InitInodes |->
                       IF n \in ChownTargets THEN [InitInodes[n] EXCEPT !.mode = mode]
                       ELSE InitInodes[n]]

ChownNext ==
    \/ Chown
    \/ SetOwnerStep
    \/ SetPermissionsStep

\* One task's chown, alone.
ChownSpec == ChownInit /\ [][ChownNext]_vars

\* The requests of the tasks that call chown on the same file.
ChownRace ==
    \E t \in Threads, uid \in {NoID, "alice", "bob"}, gid \in {NoID, "wheel"} :
        ChownCall(t, "rf", uid, gid, "nil")

ChownRaceNext ==
    \/ ChownRace
    \/ SetOwnerStep
    \/ SetPermissionsStep

\* Several tasks call chown on the same file; their steps interleave.
ChownRaceSpec == ChownInit /\ [][ChownRaceNext]_vars

---------------------------------------------------------------------------
(* chmod and utimes.                                                       *)

\* fs.FilePermsFromMode: the permission bits of a mode, without its type.
FilePermsFromMode(mode) == mode.bits

\* chmod past the ownership test, lines 1824-1832.
chmodOwned(ino, d, mode, sp) ==
    IF ~sp
    THEN [o |-> Outcome("EPERM",
                        <<WithPerms(Ev("SetPermissions", d, "", FALSE, {}, 0),
                                    FilePermsFromMode(mode))>>,
                        <<>>, InitFsys, FALSE),
          ino |-> ino]
    ELSE [o |-> Outcome("nil",
                        <<WithPerms(Ev("SetPermissions", d, "", TRUE, {}, 0),
                                    FilePermsFromMode(mode)),
                          Ev("InotifyEvent", d, "IN_ATTRIB", TRUE, {}, 0)>>,
                        <<>>, InitFsys, FALSE),
          ino |-> [ino EXCEPT ![d].mode = FilePermsFromMode(mode)]]

\* A chmod that anybody may do.
chmodByAnyone(ino, d, mode, sp) == chmodOwned(ino, d, mode, sp)

\* chmod, lines 1818-1833: its outcome and the inodes after it.  sp is the
\* result of SetPermissions.
chmod(ino, d, mode, sp) ==
    IF ~CheckOwnership(d)
    THEN [o |-> Outcome("EPERM", <<>>, <<>>, InitFsys, FALSE), ino |-> ino]
    ELSE chmodOwned(ino, d, mode, sp)

\* chmodAt's closure runs, lines 1841-1843.
ChmodAtFn ==
    /\ pc = "chmodAt_fn"
    /\ \E sp \in BOOLEAN :
          LET r == chmod(inodes, loc.d, call.mode, sp)
          IN /\ CloseClosure([r.o EXCEPT !.fs = fsys], loc.d)
             /\ inodes' = r.ino
    /\ UNCHANGED <<call, ret>>
    /\ UNCHANGED <<task, locks, threads, signals, rlimit, creds, tracker>>

\* The modes handed to chmod.
ChmodModes == {FileMode("reg", {}), FileMode("0", {"S_ISUID", "o+r"})}

\* The paths handed to chmod and utimes: files the caller owns and files it
\* does not, writable and not.
AttrPaths ==
    {Raw(FALSE, c, FALSE) : c \in {<<>>, <<"f">>, <<"rof">>, <<"ro">>, <<"new">>}}
    \cup {Raw(TRUE, <<"rf">>, FALSE)}

\* Chmod and Fchmodat, with chmodAt up to fileOpOn, lines 1835-1841.
Fchmodat ==
    /\ pc = "idle"
    /\ \E dirFD \in {AT_FDCWD, 4}, raw \in AttrPaths, mode \in ChmodModes :
          LET cp == copyInPath(raw, FALSE)
          IN /\ call' = [NoCall EXCEPT !.op = "chmodAt", !.dirFD = dirFD, !.path = cp.path,
                                       !.dirPath = cp.dirPath, !.mode = mode]
             /\ IF cp.err # "nil"
                THEN /\ ret' = [fd |-> 0, err |-> cp.err]
                     /\ pc' = "done"
                     /\ loc' = loc
                ELSE /\ ret' = ret
                     /\ pc' = "fileOpOn"
                     /\ loc' = [loc EXCEPT !.path = cp.path, !.resolve = TRUE]
    /\ UNCHANGED <<fsys, fdTable, deferred, refs, log>>
    /\ UNCHANGED kernelVars

\* Fchmod, lines 1855-1866; the deferred file.DecRef runs after chmod.
Fchmod ==
    /\ pc = "idle"
    /\ \E fd \in {3, 4, 5}, mode \in ChmodModes, sp \in BOOLEAN :
          /\ call' = [NoCall EXCEPT !.op = "fchmod", !.dirFD = fd, !.mode = mode]
          /\ pc' = "done"
          /\ IF fd \notin DOMAIN fdTable
             THEN /\ ret' = [fd |-> 0, err |-> "EBADF"]
                  /\ UNCHANGED <<log, refs, inodes>>
             ELSE LET r == chmod(inodes, fdTable[fd].dirent, mode, sp)
                      ref == <<FileRef(fdTable[fd].id)>>
                  IN /\ ret' = [fd |-> 0, err |-> r.o.err]
                     /\ log' = log \o r.o.events
                     /\ refs' = ClosureRefs(refs, ref, ref)
                     /\ inodes' = r.ino
    /\ UNCHANGED <<fsys, fdTable, loc, deferred>>
    /\ UNCHANGED <<task, locks, threads, signals, rlimit, creds, tracker>>

\* Inode.SetTimestamps: a timestamp that is not left out becomes the system
\* time or the time of the request.
SetTimestamps(ino, d, ts) ==
    [ino EXCEPT ![d].atime = IF ts.ATimeOmit THEN @
                             ELSE IF ts.ATimeSetSystemTime THEN "now" ELSE ts.ATime,
                ![d].mtime = IF ts.MTimeOmit THEN @
                             ELSE IF ts.MTimeSetSystemTime THEN "now" ELSE ts.MTime]

\* `(ts.ATimeOmit || !ts.ATimeSetSystemTime) && (ts.MTimeOmit ||
\* !ts.MTimeSetSystemTime)`, line 1891.
SetsNoSystemTime(ts) ==
    (ts.ATimeOmit \/ ~ts.ATimeSetSystemTime) /\ (ts.MTimeOmit \/ ~ts.MTimeSetSystemTime)

\* setTimestamp past its tests, lines 1901-1907.
setTimestampAllowed(fs, ino, d, ts, st) ==
    IF st # "nil"
    THEN [o |-> Outcome(st, <<Ev("SetTimestamps", d, "", FALSE, {}, 0)>>, <<>>, fs, FALSE),
          ino |-> ino]
    ELSE [o |-> Outcome("nil", <<Ev("SetTimestamps", d, "", TRUE, {}, 0),
                                 Ev("InotifyEvent", d, "IN_ATTRIB", TRUE, {}, 0)>>,
                        <<>>, fs, FALSE),
          ino |-> SetTimestamps(ino, d, ts)]

\* The closure setTimestamp of utimes, lines 1887-1908: its outcome and the
\* inodes after it.  st is the result of SetTimestamps.
setTimestamp(fs, ino, d, ts, st) ==
    LET perm == CheckPermission(fs, d, {"w"})
        check == <<Ev("CheckPermission", d, "", perm = "nil", {"w"}, 0)>>
        rest == setTimestampAllowed(fs, ino, d, ts, st)
    IN IF CheckOwnership(d) THEN rest
       ELSE IF SetsNoSystemTime(ts)
       THEN [o |-> Outcome("EPERM", <<>>, <<>>, fs, FALSE), ino |-> ino]
       ELSE IF perm # "nil"
       THEN [o |-> Outcome(perm, check, <<>>, fs, FALSE), ino |-> ino]
       ELSE [rest EXCEPT !.o.events = check \o @]

\* utimes' closure runs after fileOpOn, lines 1887-1908.
UtimesFn ==
    /\ pc = "utimes_fn"
    /\ \E st \in BackendResults :
          LET r == setTimestamp(fsys, inodes, loc.d, call.ts, st)
          IN /\ CloseClosure(r.o, loc.d)
             /\ inodes' = r.ino
    /\ UNCHANGED <<call, ret>>
    /\ UNCHANGED <<task, locks, threads, signals, rlimit, creds, tracker>>

\* A path argument that is the null pointer.
NullPath == [abs |-> FALSE, comps |-> <<>>, slash |-> FALSE, null |-> TRUE]

\* utimes, lines 1886-1937, entered with the syscall's error early (if any),
\* the times it was handed and the TimeSpec it made of them.  st is the
\* result of SetTimestamps.
utimes(op, early, dirFD, raw, times, ts, resolve, st) ==
    LET null == raw = NullPath
        byFD == null /\ dirFD # AT_FDCWD
        cp == IF null THEN [path |-> EmptyPath, dirPath |-> FALSE, err |-> "EFAULT"]
              ELSE copyInPath(raw, FALSE)
        entryErr == IF early # "nil" THEN early
                    ELSE IF byFD /\ ~resolve THEN "EINVAL"
                    ELSE IF byFD /\ dirFD \notin DOMAIN fdTable THEN "EBADF"
                    ELSE IF ~byFD THEN cp.err
                    ELSE "nil"
    IN /\ call' = [NoCall EXCEPT !.op = "utimes", !.syscall = op, !.dirFD = dirFD,
                                 !.path = cp.path, !.dirPath = cp.dirPath,
                                 !.resolve = resolve, !.times = times, !.ts = ts]
       /\ IF entryErr # "nil"
          THEN /\ ret' = [fd |-> 0, err |-> entryErr]
               /\ pc' = "done"
               /\ UNCHANGED <<loc, log, refs, inodes>>
          ELSE IF byFD
          THEN LET f == fdTable[dirFD]
                   held == <<FileRef(f.id), RootDirectory>>
                   r == setTimestamp(fsys, inodes, f.dirent, ts, st)
               IN /\ ret' = [fd |-> 0, err |-> r.o.err]
                  /\ pc' = "done"
                  /\ loc' = [loc EXCEPT !.d = f.dirent]
                  /\ log' = log \o r.o.events
                  /\ refs' = ClosureRefs(refs, held, held)
                  /\ inodes' = r.ino
          ELSE /\ ret' = ret
               /\ pc' = "fileOpOn"
               /\ loc' = [loc EXCEPT !.path = cp.path, !.resolve = resolve]
               /\ UNCHANGED <<log, refs, inodes>>
       /\ UNCHANGED <<fsys, fdTable, deferred>>
       /\ UNCHANGED <<task, locks, threads, signals, rlimit, creds, tracker>>

\* What a timespec of utimensat asks for: UTIME_OMIT, UTIME_NOW, a time, or
\* nanoseconds out of range.
TimeRequests == {"omit", "now", "set", "invalid"}

\* ktime.FromTimespec of a request: the time its seconds and nanoseconds
\* name, also when the nanoseconds are one of the two special values.
FromTimespec(req) ==
    IF req = "set" THEN "t1"
    ELSE IF req = "now" THEN "t+UTIME_NOW"
    ELSE IF req = "omit" THEN "t+UTIME_OMIT"
    ELSE req

\* The TimeSpec Utimensat makes of the two timespecs, lines 2008-2015.
UtimensatSpec(times) ==
    TimeSpec(FromTimespec(times[1]), times[1] = "omit", times[1] = "now",
             FromTimespec(times[2]), times[2] = "omit", times[1] = "now")

\* The path arguments of the utimes family.
UtimesPaths == AttrPaths \cup {NullPath}

\* Utimensat, lines 1986-2018; times is <<>> for a null timesAddr.
Utimensat ==
    /\ pc = "idle"
    /\ \E dirFD \in {AT_FDCWD, 3, 5}, raw \in UtimesPaths, nofollow \in BOOLEAN,
          times \in {<<>>} \cup (TimeRequests \X TimeRequests), st \in BackendResults :
          IF times # <<>> /\ times[1] = "omit" /\ times[2] = "omit"
          THEN /\ call' = [NoCall EXCEPT !.op = "utimes", !.syscall = "utimensat",
                                         !.dirFD = dirFD, !.times = times]
               /\ ret' = [fd |-> 0, err |-> "nil"]
               /\ pc' = "done"
               /\ UNCHANGED <<fsys, fdTable, loc, deferred, refs, log>>
               /\ UNCHANGED kernelVars
          ELSE utimes("utimensat",
                      IF times # <<>> /\ "invalid" \in {times[1], times[2]}
                      THEN "EINVAL" ELSE "nil",
                      dirFD, raw, times,
                      IF times = <<>> THEN defaultSetToSystemTimeSpec
                      ELSE UtimensatSpec(times),
                      ~nofollow, st)

\* Utime, Utimes and Futimesat, lines 1940-1977 and 2021-2044: without times
\* both timestamps are set to the system time, with times both are set to
\* the times given.
Futimesat ==
    /\ pc = "idle"
    /\ \E dirFD \in {AT_FDCWD, 3}, raw \in UtimesPaths, st \in BackendResults,
          times \in {<<>>, <<"set", "set">>, <<"set", "invalid">>} :
          utimes("futimesat",
                 IF times # <<>> /\ "invalid" \in {times[1], times[2]}
                 THEN "EINVAL" ELSE "nil",
                 dirFD, raw, times,
                 IF times = <<>> THEN defaultSetToSystemTimeSpec
                 ELSE TimeSpec("t1", FALSE, FALSE, "t1", FALSE, FALSE),
                 TRUE, st)

AttrNext ==
    \/ Fchmodat
    \/ Fchmod
    \/ ChmodAtFn
    \/ Utimensat
    \/ Futimesat
    \/ UtimesFn
    \/ FileOpOn
    \/ FileOpOnReturn

\* One chmod or utimes syscall of an unprivileged task.
AttrSpec == Init /\ [][AttrNext]_vars

---------------------------------------------------------------------------
(* open and mknod on paths with and without a trailing slash.              *)

SlashNext ==
    \/ Openat
    \/ Mknodat
    \/ FileOpAt
    \/ FileOpOn
    \/ OpenAtFn
    \/ CreateAtLoop
    \/ CreateAtOpen
    \/ MknodAtFn
    \/ FileOpOnReturn
    \/ FileOpAtReturn

\* One open or mknod syscall.
SlashSpec == Init /\ [][SlashNext]_vars

---------------------------------------------------------------------------
(* lisafs: fdTracker (pkg/lisafs/communicator.go), with Go's slices.       *)

\* The elements of a slice.
Elems(heap, s) == IF s.len = 0 THEN <<>> ELSE SubSeq(heap[s.array], 1, s.len)

\* The capacity Go's runtime gives the array a full slice of small capacity
\* grows into: twice the old one, and 1 for none.
GrownCap(cap) == IF cap = 0 THEN 1 ELSE 2 * cap

\* Go's append(s, x): within the capacity x is written into the array of s,
\* behind its last element; a full slice is copied into a new, larger array
\* first.  The heap and the slice after it.
append(heap, s, x) ==
    IF s.len < s.cap
    THEN [heap |-> [heap EXCEPT ![s.array][s.len + 1] = x],
          slice |-> Slice(s.array, s.len + 1, s.cap)]
    ELSE [heap |-> Append(heap,
                          [i \in 1..GrownCap(s.cap) |->
                              IF i <= s.len THEN heap[s.array][i]
                              ELSE IF i = s.len + 1 THEN x ELSE 0]),
          slice |-> Slice(Len(heap) + 1, s.len + 1, GrownCap(s.cap))]

\* A ReleaseFDs that goes on tracking what it returned.
ResliceKeeping(s) == s

\* Go's s[:0]: the same array and capacity, no elements.
ResliceToZero(s) == Slice(s.array, 0, s.cap)

\* The most calls made on one fdTracker.
MaxCalls == 7

\* The descriptors donated.
DonationFDs == {7, 8}

\* fdTracker.AddDonationFD, lines 52-54.
AddDonationFD ==
    /\ tracker.calls < MaxCalls
    /\ \E fd \in DonationFDs :
          LET a == append(tracker.heap, tracker.fds, fd)
          IN tracker' = [tracker EXCEPT !.fds = a.slice, !.heap = a.heap,
                                        !.added = Append(@, fd), !.calls = @ + 1]
    /\ UNCHANGED <<fsys, fdTable, call, pc, loc, deferred, refs, log, ret>>
    /\ UNCHANGED <<task, locks, threads, signals, rlimit, creds, inodes>>

\* fdTracker.ReleaseFDs, lines 57-61.
ReleaseFDs ==
    /\ tracker.calls < MaxCalls
    /\ LET retSlice == tracker.fds
       IN tracker' = [tracker EXCEPT
             !.fds = ResliceToZero(tracker.fds),
             !.released = Append(@, [ret |-> retSlice,
                                     fds |-> Elems(tracker.heap, retSlice),
                                     added |-> tracker.added]),
             !.added = <<>>,
             !.calls = @ + 1]
    /\ UNCHANGED <<fsys, fdTable, call, pc, loc, deferred, refs, log, ret>>
    /\ UNCHANGED <<task, locks, threads, signals, rlimit, creds, inodes>>

TrackerNext ==
    \/ AddDonationFD
    \/ ReleaseFDs

\* Any sequence of calls on one fdTracker.
TrackerSpec == Init /\ [][TrackerNext]_vars

---------------------------------------------------------------------------
(* memfd_create.                                                           *)

\* memfdAllFlags, line 2219.
memfdAllFlags == {"MFD_CLOEXEC", "MFD_ALLOW_SEALING"}

\* The flag words handed to memfd_create; "MFD_HUGETLB" is a bit outside
\* memfdAllFlags.
MemfdFlags == SUBSET (memfdAllFlags \cup {"MFD_HUGETLB"})

\* memfdMaxNameLen, line 2220: NAME_MAX - len("/memfd:") + 1.
memfdMaxNameLen == 249

\* The names handed to memfd_create, by their length; the last one cannot
\* be copied in.
MemfdNames ==
    {[len |-> n, err |-> "nil"] : n \in {0, 1, 2, memfdMaxNameLen, memfdMaxNameLen + 1}}
    \cup {[len |-> 0, err |-> "EFAULT"]}

\* The dirent of the new memfd inode.
MemfdNode == "memfd"

\* MemfdCreate, lines 2224-2246: the tests of its arguments, then the inode
\* and its dirent, whose reference the caller of NewDirent owns.
MemfdCreate ==
    /\ pc = "idle"
    /\ \E flags \in MemfdFlags, name \in MemfdNames :
          LET early == IF flags \ memfdAllFlags # {} THEN "EINVAL"
                       ELSE IF name.err # "nil" THEN name.err
                       ELSE IF name.len > memfdMaxNameLen THEN "EINVAL"
                       ELSE "nil"
          IN /\ call' = [NoCall EXCEPT !.op = "memfd_create", !.flags = flags,
                                       !.length = name.len]
             /\ IF early # "nil"
                THEN /\ ret' = [fd |-> 0, err |-> early]
                     /\ pc' = "done"
                     /\ UNCHANGED <<refs, log>>
                ELSE /\ ret' = ret
                     /\ pc' = "memfd_GetFile"
                     /\ refs' = ClosureRefs(refs, <<DirentRef(MemfdNode)>>, <<>>)
                     /\ log' = Append(log, Ev("NewDirent", MemfdNode, "", TRUE, {}, 0))
    /\ UNCHANGED <<fsys, fdTable, loc, deferred>>
    /\ UNCHANGED kernelVars

\* MemfdCreate, lines 2249-2255: GetFile, and the two defers once it succeeded.
MemfdGetFile ==
    /\ pc = "memfd_GetFile"
    /\ \E gf \in GetFileResults :
          /\ log' = Append(log, Ev("GetFile", MemfdNode, "", gf = "nil", {"r", "w"}, 0))
          /\ IF gf # "nil"
             THEN /\ ret' = [fd |-> 0, err |-> gf]
                  /\ pc' = "done"
                  /\ UNCHANGED <<refs, deferred>>
             ELSE /\ ret' = ret
                  /\ pc' = "memfd_NewFDFrom"
                  /\ refs' = ClosureRefs(refs, <<FileRef(MemfdNode)>>, <<>>)
                  /\ deferred' = <<DirentRef(MemfdNode), FileRef(MemfdNode)>>
    /\ UNCHANGED <<fsys, fdTable, call, loc>>
    /\ UNCHANGED kernelVars

\* MemfdCreate, lines 2257-2264: NewFDFrom and the return, where the defers run.
MemfdNewFDFrom ==
    /\ pc = "memfd_NewFDFrom"
    /\ \E nf \in NewFDResults :
          /\ log' = Append(log, Ev("NewFDFrom", MemfdNode, "", nf = "nil", {}, 0))
          /\ fdTable' = IF nf = "nil" THEN Installed(fdTable, MemfdNode) ELSE fdTable
          /\ ret' = [fd |-> IF nf = "nil" THEN LowestFree(fdTable, 0) ELSE 0, err |-> nf]
    /\ refs' = ClosureRefs(refs, <<>>, deferred)
    /\ deferred' = <<>>
    /\ pc' = "done"
    /\ UNCHANGED <<fsys, call, loc>>
    /\ UNCHANGED kernelVars

MemfdNext ==
    \/ MemfdCreate
    \/ MemfdGetFile
    \/ MemfdNewFDFrom

MemfdSpec == Init /\ [][MemfdNext]_vars

---------------------------------------------------------------------------
(* fallocate.  Go's int64 and uint64 are modelled at IntBits bits: the     *)
(* tests of Fallocate compare and add, and behave alike at every width.    *)

\* The width of the model's integers, standing for 64.
IntBits == 4

\* math.MaxInt64 at the model's width.
MaxInt == 2^(IntBits - 1) - 1

\* math.MinInt64 at the model's width.
MinInt == -(2^(IntBits - 1))

\* limits.Infinity, math.MaxUint64, at the model's width.
MaxUint == 2^IntBits - 1

\* Go's int64 addition: the sum wraps around.
AddInt64(a, b) == ((a + b - MinInt) % 2^IntBits) + MinInt

\* Go's conversion uint64(x) of an int64.
Uint64(x) == x % 2^IntBits

\* A test that lets every sum through.
SumOverflowedNever(size) == FALSE

\* `if size < 0`, line 2140.
SumOverflowed(size) == size < 0

\* fs.IsPipe.
IsPipe(fs, n) == fs.attr[n].type = "fifo"

\* The backend's results for Inode.Allocate.
AllocateResults == {"nil", "ENOSPC"}

\* What Fallocate does with the file of fd, lines 2114-2158: its outcome and
\* whether it sent SIGXFSZ.  ar is the backend's own result.
fallocate(fs, fdt, fd, mode, offset, length, limit, ar) ==
    LET file == fdt[fd]
        d == file.dirent
        ref == <<FileRef(file.id)>>
        size == AddInt64(offset, length)
        alloc == <<Ev("Allocate", d, "", ar = "nil", {}, length)>>
        Fail(e, events, acq, sig) == [o |-> Outcome(e, events, acq, fs, FALSE), sig |-> sig]
    IN IF fd \notin DOMAIN fdt THEN Fail("EBADF", <<>>, <<>>, FALSE)
       ELSE IF offset < 0 \/ length <= 0 THEN Fail("EINVAL", <<>>, ref, FALSE)
       ELSE IF mode # 0
       THEN Fail("ENOTSUP", <<Ev("EmitUnimplementedEvent", d, "", TRUE, {}, 0)>>, ref, FALSE)
       ELSE IF ~file.write THEN Fail("EBADF", <<>>, ref, FALSE)
       ELSE IF IsPipe(fs, d) THEN Fail("ESPIPE", <<>>, ref, FALSE)
       ELSE IF IsDir(fs, d) THEN Fail("EISDIR", <<>>, ref, FALSE)
       ELSE IF ~IsRegular(fs, d) THEN Fail("ENODEV", <<>>, ref, FALSE)
       ELSE IF SumOverflowed(size) THEN Fail("EFBIG", <<>>, ref, FALSE)
       ELSE IF Uint64(size) >= limit THEN Fail("EFBIG", <<>>, ref, TRUE)
       ELSE IF ar # "nil" THEN Fail(ar, alloc, ref, FALSE)
       ELSE Fail("nil", alloc \o <<Ev("InotifyEvent", d, "IN_MODIFY", TRUE, {}, 0)>>,
                 ref, FALSE)

\* The descriptors handed to fallocate; 5 is not open.
FallocFDs == {3, 4, 5, 6, 7, 8}

\* The modes handed to fallocate; 1 is FALLOC_FL_KEEP_SIZE.
FallocModes == {0, 1}

\* Fallocate, lines 2108-2159; the deferred file.DecRef runs at every return
\* after GetFile.
Fallocate ==
    /\ pc = "idle"
    /\ \E fd \in FallocFDs, mode \in FallocModes, offset \in MinInt .. MaxInt,
          length \in MinInt .. MaxInt, ar \in AllocateResults :
          LET r == fallocate(fsys, fdTable, fd, mode, offset, length, rlimit, ar)
          IN /\ call' = [NoCall EXCEPT !.op = "fallocate", !.dirFD = fd, !.allocMode = mode,
                                       !.offset = offset, !.length = length]
             /\ log' = log \o r.o.events
             /\ refs' = ClosureRefs(refs, r.o.acq, r.o.acq)
             /\ signals' = IF r.sig THEN Append(signals, "SIGXFSZ") ELSE signals
             /\ ret' = [fd |-> 0, err |-> r.o.err]
             /\ pc' = "done"
    /\ UNCHANGED <<fsys, fdTable, loc, deferred>>
    /\ UNCHANGED <<task, locks, threads, rlimit, creds, tracker, inodes>>

\* The naming graph with a fifo and a character device in the working directory.
FallocFsys == CreatedAs(TruncFsys, WorkingDirectory, "null", "chr", {"u+rw"})

\* Open files: those of TruncFdTable and the character device open for writing.
FallocFdTable ==
    8 :> [id |-> "fd8", dirent |-> NewNodeOf(WorkingDirectory, "null"), write |-> TRUE]
    @@ TruncFdTable

\* The file-size limits of the thread group.
FallocLimits == {0, 3, MaxInt, MaxUint}

FallocInit ==
    /\ fsys = FallocFsys
    /\ fdTable = FallocFdTable
    /\ call = NoCall
    /\ pc = "idle"
    /\ loc = NoLoc
    /\ deferred = <<>>
    /\ refs = NoRefs
    /\ log = <<>>
    /\ ret = [fd |-> 0, err |-> "nil"]
    /\ task = [umask |-> DefaultUmask]
    /\ locks = NoLocks
    /\ threads = IdleThreads
    /\ signals = <<>>
    /\ rlimit \in FallocLimits
    /\ creds = InitCreds
    /\ tracker = NoTracker
    /\ inodes = InitInodes

FallocNext == Fallocate

FallocSpec == FallocInit /\ [][FallocNext]_vars

---------------------------------------------------------------------------
(* What the claims speak about.                                            *)

InClosure == pc \in {"openAt_fn", "createAt_loop", "createAt_open"}

Returned == pc = "done"

\* Every object the resolver took or dropped a reference of.
ResolverObjects == BagToSet(refs.acq) \cup BagToSet(refs.rel)

LogHas(ev) == \E i \in DOMAIN log : log[i].ev = ev

\* The directory a relative path of the call starts from (NoNode when the
\* descriptor is not open).
AnchorOf(c) ==
    IF c.path.abs THEN RootDirectory
    ELSE IF c.dirFD = AT_FDCWD THEN WorkingDirectory
    ELSE IF c.dirFD \in DOMAIN InitFdTable THEN InitFdTable[c.dirFD].dirent
    ELSE NoNode

\* The full walk of the parent path of the call's path, in the naming graph
\* the call started from.
ParentWalk(c) ==
    IF AnchorOf(c) = NoNode THEN Failed("EBADF", MaxSymlinkTraversals)
    ELSE FindInode(InitFsys, RootDirectory, AnchorOf(c), SplitLast(c.path).dir,
                   MaxSymlinkTraversals)

FinalName(c) == SplitLast(c.path).name

\* The path's final component exists under its parent when the call starts.
FinalExists(c) ==
    /\ ParentWalk(c).err = "nil"
    /\ IsDir(InitFsys, ParentWalk(c).d)
    /\ FinalName(c) \in DOMAIN InitFsys.children[ParentWalk(c).d]

FinalNode(c) == InitFsys.children[ParentWalk(c).d][FinalName(c)]

---------------------------------------------------------------------------
(* C1.  Whatever way fileOpOn or fileOpAt returns (EBADF, ENOTDIR, a failed *)
(* lookup, an error of the closure, success), every reference the resolver *)
(* took (anchor file, working directory, root, looked-up node) has been    *)
(* dropped exactly once: none is held at the return, and at no time has a  *)
(* reference been dropped more often than it was taken.                    *)
ResolverReleasesExactlyOnce ==
    /\ \A o \in ResolverObjects : CopiesIn(o, refs.rel) <= CopiesIn(o, refs.acq)
    /\ Returned => \A o \in ResolverObjects : Held(refs, o) = 0

\* A createAt through an open directory descriptor whose closure failed:
\* the anchor file, the root and the looked-up parent were all taken.
ResolverReleasesWitness ==
    /\ Returned
    /\ ret.err = "EEXIST"
    /\ loc.cont = "on"
    /\ CopiesIn(FileRef("fd3"), refs.acq) = 1
    /\ CopiesIn(DirentRef(RootDirectory), refs.acq) = 1
    /\ CopiesIn(DirentRef(loc.d), refs.acq) = 1

(* C2.  While the closure runs, the resolver still holds a reference on    *)
(* each dirent it handed to it: the root and the target (or parent) node.  *)
ClosureDirentsHeld ==
    InClosure => /\ Held(refs, DirentRef(loc.root)) > 0
                 /\ Held(refs, DirentRef(loc.d)) > 0

\* The call changed nothing: no node created or truncated, no open handle
\* requested, no descriptor installed, no notification emitted.
NoMutation ==
    /\ fsys = InitFsys
    /\ fdTable = InitFdTable
    /\ \A i \in DOMAIN log :
          log[i].ev \notin {"Create", "Truncate", "GetFile", "NewFDFrom", "InotifyEvent"}

(* C3, as claimed.  createAt with O_EXCL on a path whose final component   *)
(* exists under its parent (regular node, directory or symlink, dangling   *)
(* or not) fails with EEXIST and changes nothing.                          *)
ExclOnExistingIsEEXIST ==
    (call.op = "createAt" /\ "O_EXCL" \in call.flags /\ FinalExists(call))
        => /\ NoMutation
           /\ Returned => ret.err = "EEXIST"

(* C3, amended.  The same for a path written without a trailing slash      *)
(* (with one, createAt fails with ENOENT before it looks anything up).     *)
ExclOnExistingNoSlashIsEEXIST ==
    (call.op = "createAt" /\ "O_EXCL" \in call.flags /\ FinalExists(call) /\ ~call.dirPath)
        => /\ NoMutation
           /\ Returned => ret.err = "EEXIST"

\* O_CREAT|O_EXCL on the dangling symlink dang has returned EEXIST.
ExclOnExistingWitness ==
    /\ Returned
    /\ call.op = "createAt"
    /\ "O_EXCL" \in call.flags
    /\ FinalExists(call)
    /\ FinalNode(call) = "dang"
    /\ ret.err = "EEXIST"

\* The call's final component is a symlink resolvable only via Readlink
\* whose target does not exist.
FinalIsDangling(c) ==
    /\ FinalExists(c)
    /\ InitFsys.attr[FinalNode(c)].link = "readlink"
    /\ InitFsys.attr[FinalNode(c)].rlerr = "nil"
    /\ FindInode(InitFsys, RootDirectory, ParentWalk(c).d,
                 InitFsys.attr[FinalNode(c)].target, MaxSymlinkTraversals).err = "ENOENT"

\* The walk of the parent path of the final symlink's target.
TargetParentWalk(c) ==
    FindInode(InitFsys, RootDirectory, ParentWalk(c).d,
              SplitLast(InitFsys.attr[FinalNode(c)].target).dir, MaxSymlinkTraversals)

(* C4.  createAt without O_EXCL and O_NOFOLLOW on a dangling symlink asks  *)
(* the backend to create at the symlink's target (the target's parent      *)
(* directory and final name), never at the symlink's own parent and name;  *)
(* no symlink is created and the link keeps its text.                      *)
CreateAtDanglingCreatesTarget ==
    (/\ call.op = "createAt"
     /\ call.flags \cap {"O_EXCL", "O_NOFOLLOW"} = {}
     /\ FinalIsDangling(call))
        => /\ \A i \in DOMAIN log :
                 log[i].ev = "Create" =>
                    /\ TargetParentWalk(call).err = "nil"
                    /\ log[i].node = TargetParentWalk(call).d
                    /\ log[i].name = SplitLast(InitFsys.attr[FinalNode(call)].target).name
                    /\ <<log[i].node, log[i].name>> # <<ParentWalk(call).d, FinalName(call)>>
           /\ fsys.attr[FinalNode(call)] = InitFsys.attr[FinalNode(call)]
           /\ \A n \in DOMAIN fsys.attr \ DOMAIN InitFsys.attr : fsys.attr[n].type # "symlink"

\* The call's final component is the head of a chain of k symlinks in the
\* working directory, reached with the full budget.
ChainOf(c, k) ==
    /\ c.op = "createAt"
    /\ c.flags \cap {"O_EXCL", "O_NOFOLLOW"} = {}
    /\ FinalExists(c)
    /\ ParentWalk(c).d = WorkingDirectory
    /\ ParentWalk(c).rem = MaxSymlinkTraversals
    /\ k \in 1..ChainLen
    /\ FinalName(c) = ChainName(ChainLen + 1 - k)

(* C5.  With the full budget N, createAt on a chain of k Readlink-only      *)
(* symlinks follows the whole chain when k = N and fails with ELOOP when   *)
(* k = N + 1; the budget left is N minus the hops made, and never negative.*)
ChainWithinBudget ==
    /\ loc.remainingTraversals >= 0
    /\ \A k \in {MaxSymlinkTraversals, MaxSymlinkTraversals + 1} :
          ChainOf(call, k) =>
             /\ pc \in {"createAt_loop", "createAt_open", "fn_ret"}
                   => loc.remainingTraversals = MaxSymlinkTraversals - loc.hops
             /\ (Returned /\ ~call.dirPath /\ k = MaxSymlinkTraversals)
                   => /\ loc.hops = k
                      /\ ret.err # "ELOOP"
                      /\ log # <<>>
                      /\ \A i \in DOMAIN log : log[i].node = "f"
             /\ (Returned /\ ~call.dirPath /\ k = MaxSymlinkTraversals + 1)
                   => /\ ret.err = "ELOOP"
                      /\ log = <<>>

\* A chain of exactly N links was followed to its end and the file opened.
ChainWithinBudgetWitness ==
    /\ Returned
    /\ ChainOf(call, MaxSymlinkTraversals)
    /\ loc.hops = MaxSymlinkTraversals
    /\ loc.remainingTraversals = 0
    /\ ret.err = "nil"
    /\ loc.found = "f"

(* C6.  Every iteration of createAt's loop either leaves the loop or uses  *)
(* up one unit of the traversal budget, which never goes below zero: the   *)
(* loop ends for every symlink graph, cyclic ones included.                *)
LoopConsumesBudget ==
    [][(pc = "createAt_loop" /\ pc' = "createAt_loop")
          => /\ loc'.remainingTraversals < loc.remainingTraversals
             /\ loc'.remainingTraversals >= 0]_vars

\* The link that points to itself was followed until the budget ran out.
LoopConsumesBudgetWitness ==
    /\ Returned
    /\ call.op = "createAt"
    /\ FinalExists(call)
    /\ FinalNode(call) = "self"
    /\ loc.hops = MaxSymlinkTraversals
    /\ ret.err = "ELOOP"

(* C7.  openAt on a directory with a write-mode open request fails with    *)
(* EISDIR, whether or not the permission check on the directory would fail.*)
OpenDirForWriteIsEISDIR ==
    (/\ Returned
     /\ call.op = "openAt"
     /\ loc.cont = "on"
     /\ IsDir(InitFsys, loc.d)
     /\ "O_WRONLY" \in call.flags)
        => ret.err = "EISDIR"

(* C8.  On every open path (openAt, and createAt on an existing node) no   *)
(* open handle is requested and no descriptor installed for a directory    *)
(* with write access, for a non-directory with O_DIRECTORY, or for a       *)
(* non-directory named with a trailing slash.                              *)
NoForbiddenOpen ==
    \A i \in DOMAIN log :
        log[i].ev \in {"GetFile", "NewFDFrom"} =>
           LET dir == fsys.attr[log[i].node].type = "dir"
           IN /\ ~(dir /\ "O_WRONLY" \in call.flags)
              /\ ~(~dir /\ "O_DIRECTORY" \in call.flags)
              /\ ~(~dir /\ call.dirPath)

(* C9.  The backend's GetFile is requested only after CheckPermission for  *)
(* the requested open flags succeeded on that node; after a failed check   *)
(* GetFile is not requested at all.                                        *)
GetFileAfterPermission ==
    /\ \A i \in DOMAIN log :
          log[i].ev = "GetFile" =>
             \E j \in 1..(i - 1) :
                /\ log[j].ev = "CheckPermission"
                /\ log[j].node = log[i].node
                /\ log[j].mask = flagsToPermissions(call.flags)
                /\ log[j].ok
    /\ (\E j \in DOMAIN log : log[j].ev = "CheckPermission" /\ ~log[j].ok)
          => ~LogHas("GetFile")

\* A write open of the read-only file rof was refused.
GetFileAfterPermissionWitness ==
    /\ Returned
    /\ ret.err = "EACCES"
    /\ \E j \in DOMAIN log :
          log[j].ev = "CheckPermission" /\ log[j].node = "rof" /\ ~log[j].ok

(* C10.  With O_TRUNC a successful openAt or createAt has truncated the    *)
(* existing node it resolved to length zero; Truncate is never invoked on  *)
(* a node the call created, and never without O_TRUNC.                     *)
TruncateOnlyExisting ==
    /\ "O_TRUNC" \notin call.flags => ~LogHas("Truncate")
    /\ \A i \in DOMAIN log :
          log[i].ev = "Truncate" =>
             /\ log[i].node \in DOMAIN InitFsys.attr
             /\ log[i].size = 0
             /\ ~LogHas("Create")
    /\ (Returned /\ ret.err = "nil" /\ "O_TRUNC" \in call.flags /\ ~LogHas("Create"))
          => /\ \E i \in DOMAIN log :
                   log[i].ev = "Truncate" /\ log[i].node = loc.found /\ log[i].ok
             /\ fsys.attr[loc.found].size = 0

\* createAt with O_TRUNC opened the existing file f, now empty.
TruncateOnlyExistingWitness ==
    /\ Returned
    /\ ret.err = "nil"
    /\ call.op = "createAt"
    /\ "O_TRUNC" \in call.flags
    /\ loc.found = "f"
    /\ InitFsys.attr["f"].size > 0
    /\ fsys.attr["f"].size = 0

---------------------------------------------------------------------------
(* C11.  Whenever openAt or createAt has truncated an existing node for    *)
(* O_TRUNC, an IN_MODIFY notification is emitted on that node by the time  *)
(* the call returns.                                                       *)
TruncateEmitsModify ==
    Returned =>
       \A i \in DOMAIN log :
          (log[i].ev = "Truncate" /\ log[i].ok) =>
             \E j \in DOMAIN log :
                /\ log[j].ev = "InotifyEvent"
                /\ log[j].name = "IN_MODIFY"
                /\ log[j].node = log[i].node

\* The successful NewFDFrom calls of the log.
Installs == {i \in DOMAIN log : log[i].ev = "NewFDFrom" /\ log[i].ok}

\* The IN_OPEN notifications of the log.
OpenNotifications == {i \in DOMAIN log : log[i].ev = "InotifyEvent" /\ log[i].name = "IN_OPEN"}

(* C12.  A successful openAt or createAt has installed one descriptor and  *)
(* then emitted one IN_OPEN on the final node; a failed one (a failure of  *)
(* NewFDFrom included) has installed none, emitted no IN_OPEN and returns  *)
(* fd 0; either way the file reference from GetFile or Create is released. *)
InstallThenNotifyOnce ==
    /\ Cardinality(Installs) <= 1
    /\ Cardinality(OpenNotifications) <= 1
    /\ \A j \in OpenNotifications :
          \E i \in Installs : i < j /\ log[i].node = log[j].node
    /\ Returned =>
          /\ CopiesIn(FileRef(loc.found), refs.cacq) = CopiesIn(FileRef(loc.found), refs.crel)
          /\ IF ret.err = "nil"
             THEN /\ Cardinality(Installs) = 1
                  /\ Cardinality(OpenNotifications) = 1
                  /\ DOMAIN fdTable \ DOMAIN InitFdTable = {ret.fd}
                  /\ fdTable[ret.fd].dirent = loc.found
                  /\ \A i \in Installs : log[i].node = loc.found
             ELSE /\ fdTable = InitFdTable
                  /\ OpenNotifications = {}
                  /\ Installs = {}
                  /\ ret.fd = 0

\* NewFDFrom failed after the backend had created the node: the new file
\* was taken and released, and nothing was installed.
InstallThenNotifyOnceWitness ==
    /\ Returned
    /\ ret.err = "EMFILE"
    /\ LogHas("Create")
    /\ CopiesIn(FileRef(loc.found), refs.cacq) = 1
    /\ CopiesIn(FileRef(loc.found), refs.crel) = 1

---------------------------------------------------------------------------
\* The backend calls that create a node.
Creations == {i \in DOMAIN log : log[i].ev \in {"Create", "CreateFifo", "CreateDirectory"}}

(* C13.  createAt, mknodAt and mkdirAt ask the backend to create a node    *)
(* only after the write+execute permission check on the parent directory   *)
(* succeeded, and hand it exactly the requested mode's permission bits     *)
(* that the umask does not clear.                                          *)
CreateAfterParentCheckWithMaskedMode ==
    \A i \in Creations :
       /\ \E j \in 1..(i - 1) :
             /\ log[j].ev = "CheckPermission"
             /\ log[j].node = log[i].node
             /\ log[j].mask = {"w", "x"}
             /\ log[j].ok
       /\ \A b \in PermBits :
             b \in log[i].perms <=> (b \in call.mode.bits /\ b \notin task.umask)

\* mkdirat made a directory with mode 0666-like bits under umask 022.
CreateAfterParentCheckWitness ==
    /\ Returned
    /\ call.op = "mkdirAt"
    /\ ret.err = "nil"
    /\ call.mode.bits = PermBits
    /\ task.umask = {"g+w", "o+w"}
    /\ \E i \in Creations : log[i].ev = "CreateDirectory" /\ log[i].perms = {"u+rw"}

---------------------------------------------------------------------------
\* Another owner holds a write lock inside the range.
ExclusivelyLockedByOther(ls, owner, rng) ==
    \E c \in rng : ls[c].writer \notin {NoOwner, owner}

\* Another owner holds some lock inside the range.
LockedByOther(ls, owner, rng) ==
    \E c \in rng : HoldersOf(ls[c]) \ {owner} # {}

\* The owner holds a lock of the type on every byte of the range.
HoldsLock(ls, owner, type, rng) ==
    \A c \in rng : IF type = "WriteLock" THEN ls[c].writer = owner
                                          ELSE owner \in ls[c].readers

\* What a non-blocking lock request of the owner must do: fail at once
\* with err and change no lock when another owner holds the range
\* exclusively; succeed when no other owner holds any of it.
RefusedOrGranted(t, ls, owner, type, rng, err) ==
    /\ threads'[t].pc = "idle"
    /\ ExclusivelyLockedByOther(ls, owner, rng)
          => threads'[t].err = err /\ locks' = locks
    /\ ~LockedByOther(ls, owner, rng)
          => /\ threads'[t].err = "nil"
             /\ \E ctx \in {"posix", "bsd"} : HoldsLock(locks'[ctx], owner, type, rng)

LockTypeOf(name) == IF name \in {"F_RDLCK", "LOCK_SH"} THEN "ReadLock" ELSE "WriteLock"

(* C14.  A non-blocking lock request (F_SETLK, or flock with LOCK_NB) on a *)
(* range another holder has locked exclusively returns at once, with       *)
(* EAGAIN for fcntl and EWOULDBLOCK for flock, without waiting and without *)
(* changing any lock; once no other holder is left on the range the same   *)
(* request succeeds.                                                       *)
NonBlockingLockNeverWaits ==
    [][\A t \in Threads :
          /\ \A r \in FcntlRequests :
                (/\ FcntlCall(t, r)
                 /\ r.cmd = "F_SETLK"
                 /\ r.type \in {"F_RDLCK", "F_WRLCK"}
                 /\ r.fd = 4)
                   => RefusedOrGranted(t, locks.posix, FDTableOf(t), LockTypeOf(r.type),
                                       r.rng, "EAGAIN")
          /\ \A r \in FlockRequests :
                (/\ FlockCall(t, r)
                 /\ r.nb
                 /\ r.op \in {"LOCK_SH", "LOCK_EX"}
                 /\ r.fd \in DOMAIN ThreadFiles(t))
                   => RefusedOrGranted(t, locks.bsd, ThreadFiles(t)[r.fd].id,
                                       LockTypeOf(r.op), WholeFile, "EWOULDBLOCK")]_vars

\* t1 holds the POSIX write lock and t2's F_SETLK has just been refused.
NonBlockingLockWitness ==
    /\ locks.posix[0].writer = FDTableOf("t1")
    /\ threads["t2"].pc = "idle"
    /\ threads["t2"].err = "EAGAIN"

Waiting(t) == threads[t].pc = "waiting"

\* The lock the task sleeps for is still in conflict with another holder.
StillBlocked(t) ==
    LET w == threads[t].wait
    IN Conflicts(locks[w.ctx], w.owner, w.type, w.rng)

FDTables == {FDTableOf(t) : t \in Threads}

OpenFiles == {ThreadFiles(t)[fd].id : t \in Threads, fd \in {4}} \cup {ThreadFiles("t1")[5].id}

(* C16.  POSIX locks are owned by descriptor tables and BSD locks by open  *)
(* files, and a BSD lock covers the whole file; Fcntl neither changes nor  *)
(* depends on the BSD locks and Flock neither changes nor depends on the   *)
(* POSIX locks: a request fails or waits only for a lock of its own family.*)
LockFamiliesIndependent ==
    /\ [](\A c \in LockCells :
             /\ HoldersOf(locks.posix[c]) \subseteq FDTables
             /\ HoldersOf(locks.bsd[c]) \subseteq OpenFiles
             /\ locks.bsd[c] = locks.bsd[0])
    /\ [][\A t \in Threads :
             /\ \A r \in FcntlRequests :
                   FcntlCall(t, r)
                      => /\ locks'.bsd = locks.bsd
                         /\ fcntlLock([locks EXCEPT !.bsd = NoLocks.bsd], t, r).err
                               = fcntlLock(locks, t, r).err
                         /\ fcntlLock([locks EXCEPT !.bsd = NoLocks.bsd], t, r).wait
                               = fcntlLock(locks, t, r).wait
                         /\ (threads'[t].err = "EAGAIN" \/ Waiting(t)')
                               => LockedByOther(locks.posix, FDTableOf(t), r.rng)
             /\ \A r \in FlockRequests :
                   FlockCall(t, r)
                      => /\ locks'.posix = locks.posix
                         /\ flockLock([locks EXCEPT !.posix = NoLocks.posix], t, r).err
                               = flockLock(locks, t, r).err
                         /\ flockLock([locks EXCEPT !.posix = NoLocks.posix], t, r).wait
                               = flockLock(locks, t, r).wait
                         /\ (threads'[t].err = "EWOULDBLOCK" \/ Waiting(t)')
                               => LockedByOther(locks.bsd, ThreadFiles(t)[r.fd].id, WholeFile)]_vars

\* t1 holds the POSIX write lock while t2 holds the BSD write lock on the
\* same inode.
LockFamiliesWitness ==
    /\ locks.posix[0].writer = FDTableOf("t1")
    /\ locks.bsd[0].writer = ThreadFiles("t2")[4].id
    /\ threads["t2"].err = "nil"

---------------------------------------------------------------------------
\* The parent path of the call's path resolves to a directory.
ParentIsDirectory(c) == ParentWalk(c).err = "nil" /\ IsDir(InitFsys, ParentWalk(c).d)

\* rmdirAt was handed the root, or a path whose final component is "." or "..".
RmdirOfSpecialName ==
    /\ call.op = "rmdirAt"
    /\ call.path # EmptyPath
    /\ call.path = RootPath \/ FinalName(call) \in {".", ".."}

\* The backend was asked neither whether the name may be deleted nor to
\* remove it, and the naming graph is the one the call started from.
NothingRemoved == ~LogHas("MayDelete") /\ ~LogHas("RemoveDirectory") /\ fsys = InitFsys

(* C17 as stated.  rmdirAt fails with EBUSY when the path is exactly the   *)
(* root, with EINVAL when the final component is ".", and with ENOTEMPTY   *)
(* when the final component is ".."; in all three cases neither MayDelete  *)
(* nor RemoveDirectory is invoked and the naming graph is unchanged.       *)
RmdirSpecialNameErrors ==
    RmdirOfSpecialName
        => /\ NothingRemoved
           /\ Returned =>
                ret.err = IF call.path = RootPath THEN "EBUSY"
                          ELSE IF FinalName(call) = "." THEN "EINVAL"
                          ELSE "ENOTEMPTY"

(* C17, amended.  rmdirAt fails with EBUSY when the path is exactly the    *)
(* root; when the parent path resolves to a directory it fails with EINVAL *)
(* for a final component "." and with ENOTEMPTY for ".."; when the parent  *)
(* path does not resolve to a directory it fails with the error of that    *)
(* resolution or with ENOTDIR.  In all these cases neither MayDelete nor   *)
(* RemoveDirectory is invoked and the naming graph is unchanged.           *)
RmdirSpecialNameErrorsUnderDirectory ==
    RmdirOfSpecialName
        => /\ NothingRemoved
           /\ Returned =>
                ret.err = IF call.path = RootPath THEN "EBUSY"
                          ELSE IF ParentWalk(call).err # "nil" THEN ParentWalk(call).err
                          ELSE IF ~IsDir(InitFsys, ParentWalk(call).d) THEN "ENOTDIR"
                          ELSE IF FinalName(call) = "." THEN "EINVAL"
                          ELSE "ENOTEMPTY"

\* rmdir("sub/..") has returned ENOTEMPTY after its closure ran on sub.
RmdirSpecialNameWitness ==
    /\ Returned
    /\ call.op = "rmdirAt"
    /\ ParentIsDirectory(call)
    /\ ParentWalk(call).d = "sub"
    /\ FinalName(call) = ".."
    /\ loc.d = "sub"
    /\ ret.err = "ENOTEMPTY"

---------------------------------------------------------------------------
\* The new path of the call, as a call of its own.
NewSide(c) == [c EXCEPT !.dirFD = c.newDirFD, !.path = c.newPath]

SpecialNames == {"", ".", ".."}

\* renameAt was handed an old or a new path whose final component is
\* empty, "." or "..".
RenameOfSpecialName ==
    /\ call.op = "renameAt"
    /\ call.path # EmptyPath
    /\ call.newPath # EmptyPath
    /\ FinalName(call) \in SpecialNames \/ FinalName(NewSide(call)) \in SpecialNames

\* The backend rename has just been called: the nested closure has
\* returned and neither resolver has dropped its references yet.
RenameInvoked == pc = "nested_fn_ret" /\ call.op = "renameAt" /\ LogHas("Rename")

\* Each resolver still holds the reference of the parent it handed down.
BothParentsHeld ==
    IF loc.d = loc.newParent
    THEN Held(refs, DirentRef(loc.d)) >= 2
    ELSE Held(refs, DirentRef(loc.d)) >= 1 /\ Held(refs, DirentRef(loc.newParent)) >= 1

(* C18 as stated.  renameAt fails with EBUSY and never invokes the backend *)
(* rename primitive when the final component of the old path or of the new *)
(* path is empty, "." or ".."; when the backend rename is invoked, the     *)
(* references to both the old parent and the new parent are still held.    *)
RenameSpecialNameIsEBUSY ==
    /\ RenameOfSpecialName => /\ ~LogHas("Rename")
                              /\ Returned => ret.err = "EBUSY"
    /\ RenameInvoked => BothParentsHeld

\* What renameAt returns for such a path: the first failure in the order
\* old parent, old name, new parent, new name.
RenameSpecialNameError(c) ==
    IF ParentWalk(c).err # "nil" THEN ParentWalk(c).err
    ELSE IF ~IsDir(InitFsys, ParentWalk(c).d) THEN "ENOTDIR"
    ELSE IF FinalName(c) \in SpecialNames THEN "EBUSY"
    ELSE IF ParentWalk(NewSide(c)).err # "nil" THEN ParentWalk(NewSide(c)).err
    ELSE IF ~IsDir(InitFsys, ParentWalk(NewSide(c)).d) THEN "ENOTDIR"
    ELSE "EBUSY"

(* C18, amended.  When the final component of the old path or of the new   *)
(* path is empty, "." or "..", renameAt never invokes the backend rename   *)
(* primitive and leaves the naming graph unchanged; it fails with EBUSY    *)
(* unless an earlier step fails first, in the order: resolution of the old *)
(* parent (its error, or ENOTDIR for a non-directory), the old name        *)
(* (EBUSY), resolution of the new parent, the new name (EBUSY).  When the  *)
(* backend rename is invoked, the references to both the old parent and    *)
(* the new parent are still held.                                          *)
RenameSpecialNameRefused ==
    /\ RenameOfSpecialName => /\ ~LogHas("Rename")
                              /\ fsys = InitFsys
                              /\ Returned => ret.err = RenameSpecialNameError(call)
    /\ RenameInvoked => BothParentsHeld

\* rename("f", "sub/..") has returned EBUSY from the nested closure, which
\* ran on the new parent sub.
RenameSpecialNameWitness ==
    /\ Returned
    /\ call.op = "renameAt"
    /\ FinalName(call) = "f"
    /\ FinalName(NewSide(call)) = ".."
    /\ loc.newParent = "sub"
    /\ ret.err = "EBUSY"
    /\ ~LogHas("Rename")

---------------------------------------------------------------------------
\* linkAt takes its target from the descriptor, not from a path.
LinkOfDescriptor == call.allowEmpty /\ call.path = EmptyPath

\* The node linkAt found as the target of the link (NoNode before it has
\* one, or when it returned without one).
LinkTarget == IF LinkOfDescriptor THEN loc.target ELSE loc.d

\* The caller owns the node, or it is a regular file the caller may read
\* and write.
MayLink(n) ==
    \/ n \notin NotOwned
    \/ InitFsys.attr[n].type = "reg" /\ {"r", "w"} \subseteq InitFsys.attr[n].perm

(* C19.  Hard-link creation is permitted exactly when the caller owns the  *)
(* target, or the target is a regular file on which the caller has both    *)
(* read and write permission: then linkAt goes on to resolve the new       *)
(* path's parent.  Otherwise linkAt fails with EPERM, the new path's parent *)
(* has not been resolved, CreateHardLink is never invoked and the naming   *)
(* graph is unchanged.                                                     *)
LinkPermissionDecides ==
    (call.op = "linkAt" /\ LinkTarget # NoNode)
        => IF MayLink(LinkTarget)
           THEN Returned => loc.nested
           ELSE /\ ~loc.nested
                /\ BagToSet(refs.acq) \subseteq {DirentRef(RootDirectory),
                                                 DirentRef(WorkingDirectory),
                                                 DirentRef(LinkTarget),
                                                 FileRef(InitFdTable[3].id)}
                /\ ~LogHas("CreateHardLink")
                /\ fsys = InitFsys
                /\ Returned => ret.err = "EPERM"

\* link("rof", ...) has returned EPERM: rof is a regular file of another
\* owner that the caller may only read.
LinkPermissionWitness ==
    /\ Returned
    /\ call.op = "linkAt"
    /\ ~LinkOfDescriptor
    /\ LinkTarget = "rof"
    /\ ~MayLink(LinkTarget)
    /\ ret.err = "EPERM"

---------------------------------------------------------------------------
\* The call asks for a symlink named by the old path to be followed.
Follows(c) == c.syscall = "Linkat" /\ "AT_SYMLINK_FOLLOW" \in c.flags

\* The walk of the old path in the naming graph the call started from,
\* following a final symlink or not.
OldPathWalk(c, follow) ==
    IF AnchorOf(c) = NoNode THEN Failed("EBADF", MaxSymlinkTraversals)
    ELSE IF follow
    THEN FindInode(InitFsys, RootDirectory, AnchorOf(c), c.path, MaxSymlinkTraversals)
    ELSE FindLink(InitFsys, RootDirectory, AnchorOf(c), c.path, MaxSymlinkTraversals)

(* C20.  link(2) never dereferences a symlink named by the old path: the   *)
(* target handed to mayLinkAt and to CreateHardLink is the link node       *)
(* itself.  linkat(2) dereferences it if and only if AT_SYMLINK_FOLLOW is  *)
(* set.  The flag has no effect on how the new path's parent is resolved:  *)
(* it is always the full resolution of the parent path, symlinks followed. *)
LinkFollowsOnlyOnFlag ==
    (call.op = "linkAt" /\ ~LinkOfDescriptor)
        => /\ loc.d # NoNode => loc.d = OldPathWalk(call, Follows(call)).d
           /\ \A i \in DOMAIN log :
                 log[i].ev = "CreateHardLink"
                     => log[i].node = OldPathWalk(call, Follows(call)).d
           /\ loc.newParent # NoNode => loc.newParent = ParentWalk(NewSide(call)).d
           /\ (Returned /\ loc.looked /\ OldPathWalk(call, Follows(call)).err # "nil")
                 => ret.err = OldPathWalk(call, Follows(call)).err

\* linkat without AT_SYMLINK_FOLLOW on a symlink that resolves, with the new
\* name under the symlinked directory /wl, has linked the link node itself
\* under the directory that /wl names.
LinkFollowsOnlyOnFlagWitness ==
    /\ Returned
    /\ call.op = "linkAt"
    /\ call.syscall = "Linkat"
    /\ ~Follows(call)
    /\ ~LinkOfDescriptor
    /\ loc.d # NoNode
    /\ IsSymlink(InitFsys, loc.d)
    /\ OldPathWalk(call, TRUE).err = "nil"
    /\ OldPathWalk(call, TRUE).d # loc.d
    /\ call.newPath = Path(TRUE, <<"wl", "g">>)
    /\ loc.newParent = "w"
    /\ ret.err = "nil"
    /\ \E i \in DOMAIN log : log[i].ev = "CreateHardLink" /\ log[i].node = loc.d /\ log[i].ok

---------------------------------------------------------------------------
TruncateCall == call.op \in {"truncate", "ftruncate"}

\* The backend was not asked to truncate, the naming graph (file lengths
\* included) is the one the call started from, and nothing was notified.
NothingTruncated ==
    /\ ~LogHas("Truncate")
    /\ fsys = TruncFsys
    /\ \A i \in DOMAIN log : log[i].name # "IN_MODIFY"

(* C21 as stated.  Truncate and Ftruncate with a length at or above the    *)
(* thread group's current file-size limit deliver SIGXFSZ to the calling   *)
(* task exactly once and fail with EFBIG; the backend Truncate is never    *)
(* invoked, the file length is unchanged and no IN_MODIFY is emitted.      *)
(* Below the limit no SIGXFSZ is ever sent.                                *)
OverLimitIsEFBIG ==
    TruncateCall
        => IF call.length >= rlimit
           THEN /\ NothingTruncated
                /\ Returned => signals = <<"SIGXFSZ">> /\ ret.err = "EFBIG"
           ELSE signals = <<>>

\* The tests that precede the limit test pass: truncate's path is not empty
\* and has no trailing slash; ftruncate's descriptor is open for writing on
\* a regular file.
ReachesLimitTest ==
    IF call.op = "truncate"
    THEN call.path # EmptyPath /\ ~call.dirPath
    ELSE /\ call.dirFD \in DOMAIN TruncFdTable
         /\ TruncFdTable[call.dirFD].write
         /\ TruncFsys.attr[TruncFdTable[call.dirFD].dirent].type = "reg"

(* C21, amended.  Truncate and Ftruncate with a length at or above the     *)
(* file-size limit never invoke the backend Truncate, leave the file       *)
(* length unchanged and emit no IN_MODIFY.  When the tests that precede    *)
(* the limit test pass (truncate: a non-empty path without trailing slash; *)
(* ftruncate: a descriptor open for writing on a regular file) the call    *)
(* delivers SIGXFSZ exactly once and fails with EFBIG; otherwise it fails  *)
(* with the earlier test's error (ENOENT, EINVAL, EBADF) and sends no      *)
(* signal.  Below the limit no SIGXFSZ is ever sent.                       *)
OverLimitIsEFBIGAfterEarlierTests ==
    TruncateCall
        => IF call.length >= rlimit
           THEN /\ NothingTruncated
                /\ Returned =>
                      IF ReachesLimitTest
                      THEN signals = <<"SIGXFSZ">> /\ ret.err = "EFBIG"
                      ELSE signals = <<>> /\ ret.err \in {"ENOENT", "EINVAL", "EBADF"}
           ELSE signals = <<>>

\* ftruncate of the writable file rf to exactly the limit has returned
\* EFBIG with one SIGXFSZ sent.
OverLimitWitness ==
    /\ Returned
    /\ call.op = "ftruncate"
    /\ call.dirFD = 4
    /\ call.length = rlimit
    /\ signals = <<"SIGXFSZ">>
    /\ ret.err = "EFBIG"

---------------------------------------------------------------------------
\* The walk of truncate's path in the naming graph the call started from.
TruncateWalk(c) ==
    FindInode(TruncFsys, RootDirectory, WorkingDirectory, c.path, MaxSymlinkTraversals)

(* C22.  Truncate(path, length) checks existence, then type, then          *)
(* permission, then the file-size limit: on a nonexistent path it fails    *)
(* with ENOENT and on a directory with EISDIR, also when length is at or   *)
(* above the file-size limit, and in those cases no SIGXFSZ is delivered.  *)
TruncateChecksExistenceFirst ==
    (call.op = "truncate" /\ call.length >= 0 /\ call.path # EmptyPath /\ ~call.dirPath
     /\ Returned)
        => /\ TruncateWalk(call).err = "ENOENT"
                 => ret.err = "ENOENT" /\ signals = <<>>
           /\ (TruncateWalk(call).err = "nil" /\ IsDir(TruncFsys, TruncateWalk(call).d))
                 => ret.err = "EISDIR" /\ signals = <<>>

---------------------------------------------------------------------------
\* accessAt's closure has checked the node the path resolves to.
AccessChecked == call.op = "accessAt" /\ Returned /\ loc.d # NoNode

\* The task's credentials with the real ids as effective ids and the given
\* effective capabilities.
RealView(c, caps) == [c EXCEPT !.euid = c.ruid, !.egid = c.rgid, !.effective = caps]

\* The only permission check accessAt's closure makes is the one on the
\* target, with the requested bits, under the derived credentials.
OneDerivedCheck ==
    call.op = "accessAt"
        => \A i \in DOMAIN log :
              /\ i = 1
              /\ log[i].ev = "CheckPermission"
              /\ log[i].name = "accessContext"
              /\ log[i].node = loc.d
              /\ log[i].mask = call.flags

(* C23 as stated.  accessAt evaluates the requested read/write/execute     *)
(* bits against a derived credentials view whose effective uid/gid equal   *)
(* the task's real uid/gid and whose effective capabilities are full when  *)
(* the real uid is root in the namespace and empty otherwise; the task's   *)
(* own credentials are identical before and after the call on every exit   *)
(* path, and no other permission check ever observes the derived view.     *)
AccessUsesRealIdsAndFullCaps ==
    /\ [][creds' = creds]_vars
    /\ [](OneDerivedCheck
          /\ (AccessChecked =>
                ret.err = CheckPermissionAs(
                              RealView(creds[Caller],
                                       IF creds[Caller].ruid = RootUID THEN AllCaps ELSE {}),
                              InitFsys, InitInodes, loc.d, call.flags)))

(* C23, amended.  The derived view's effective uid/gid equal the task's    *)
(* real uid/gid; its effective capabilities are the task's permitted       *)
(* capabilities when the real uid is root in the namespace and empty       *)
(* otherwise.  The task's own credentials are identical before and after   *)
(* the call on every exit path, and no other permission check observes the *)
(* derived view.                                                           *)
AccessUsesRealIdsAndPermittedCaps ==
    /\ [][creds' = creds]_vars
    /\ [](OneDerivedCheck
          /\ (AccessChecked =>
                ret.err = CheckPermissionAs(
                              RealView(creds[Caller],
                                       IF creds[Caller].ruid = RootUID
                                       THEN creds[Caller].permitted ELSE {}),
                              InitFsys, InitInodes, loc.d, call.flags)))

\* A set-uid-root program run by alice has asked whether it may write the
\* root-owned file f, and was told EACCES although its effective
\* capabilities would have allowed it.
AccessWitness ==
    /\ AccessChecked
    /\ creds[Caller].ruid = "alice"
    /\ creds[Caller].euid = RootUID
    /\ "CAP_DAC_OVERRIDE" \in creds[Caller].effective
    /\ loc.d = "f"
    /\ "w" \in call.flags
    /\ ret.err = "EACCES"

\* The chown of the one task that calls it.
ChownOf == threads[Caller]

\* The request names ids the namespace maps.
ChownValid == ChownOf.pc # "idle" /\ ChownOf.uid # Unmapped /\ ChownOf.gid # Unmapped

\* chown could not read the attributes.
ChownUnread == ChownOf.pc = "done" /\ ChownOf.err = "EIO" /\ ~LogHas("SetOwner")

\* The reference rule for the uid of the request.
UIDAllowed ==
    \/ ChownOf.uid = NoID
    \/ "CAP_CHOWN" \in creds[Caller].effective
    \/ ChownOf.uattr.uid = creds[Caller].euid /\ ChownOf.uid = ChownOf.uattr.uid

\* The reference rule for the gid of the request.
GIDAllowed ==
    \/ ChownOf.gid = NoID
    \/ "CAP_CHOWN" \in creds[Caller].effective
    \/ /\ ChownOf.uattr.uid = creds[Caller].euid
       /\ \/ ChownOf.gid = ChownOf.uattr.gid
          \/ ChownOf.gid \in creds[Caller].groups \cup {creds[Caller].egid}

\* C24. chown goes on to SetOwner exactly when the reference rule allows the
\* uid and the gid of the request; a request it does not allow returns EPERM
\* with no backend call made and the file's attributes as they were.
ChownFollowsRule ==
    ChownValid /\ ~ChownUnread =>
        IF UIDAllowed /\ GIDAllowed
        THEN ChownOf.pc = "SetOwner" \/ LogHas("SetOwner")
        ELSE /\ ChownOf.pc = "done"
             /\ ChownOf.err = "EPERM"
             /\ log = <<>>
             /\ inodes[ChownOf.d] = ChownOf.uattr

\* The owner, without CAP_CHOWN, asked for the uid and the gid the file
\* already has, and chown returned nil after SetOwner.
ChownNoopWitness ==
    /\ ChownOf.pc = "done"
    /\ ChownOf.err = "nil"
    /\ "CAP_CHOWN" \notin creds[Caller].effective
    /\ ChownOf.uid = ChownOf.uattr.uid
    /\ ChownOf.gid = ChownOf.uattr.gid
    /\ LogHas("SetOwner")

\* The request changes the uid or the gid of the file.
OwnerChanges ==
    \/ ChownOf.uid # NoID /\ ChownOf.uid # ChownOf.uattr.uid
    \/ ChownOf.gid # NoID /\ ChownOf.gid # ChownOf.uattr.gid

\* The case in which chown is to clear the privilege bits.
PrivilegeToClear ==
    /\ OwnerChanges
    /\ ChownOf.uattr.mode \cap {"S_ISUID", "S_ISGID"} # {}
    /\ ~IsDir(fsys, ChownOf.d)

\* C25. A chown that returned nil has cleared the setuid and setgid bits, and
\* nothing else, exactly when the owner changed, a bit was set and the file
\* is no directory; in every other case chown never writes the permissions.
ChownClearsPrivilege ==
    ChownOf.pc # "idle" =>
        IF PrivilegeToClear
        THEN ChownOf.pc = "done" /\ ChownOf.err = "nil" =>
                inodes[ChownOf.d].mode = ChownOf.uattr.mode \ {"S_ISUID", "S_ISGID"}
        ELSE /\ inodes[ChownOf.d].mode = ChownOf.uattr.mode
             /\ ~LogHas("SetPermissions")

\* chown changed the group of a regular file with the setgid bit and
\* returned nil.
ChownClearsPrivilegeWitness ==
    /\ ChownOf.pc = "done"
    /\ ChownOf.err = "nil"
    /\ PrivilegeToClear
    /\ ChownOf.uid = NoID
    /\ "S_ISGID" \in ChownOf.uattr.mode
    /\ "S_ISGID" \notin inodes[ChownOf.d].mode

\* A directory with the setuid bit changed owner and kept its bits.
ChownKeepsDirectoryBits ==
    /\ ChownOf.pc = "done"
    /\ ChownOf.err = "nil"
    /\ OwnerChanges
    /\ IsDir(fsys, ChownOf.d)
    /\ "S_ISUID" \in inodes[ChownOf.d].mode

\* C26. A step of SetOwner by a task without CAP_CHOWN leaves the uid of the
\* file as it is at that moment.
UnprivilegedSetOwnerKeepsUID ==
    [][\A t \in Threads :
          /\ threads[t].pc = "SetOwner"
          /\ threads'[t].pc # "SetOwner"
          /\ "CAP_CHOWN" \notin creds[t].effective
          => inodes'[threads[t].d].uid = inodes[threads[t].d].uid]_vars

\* chmod itself ran: the closure of chmodAt has returned, or Fchmod found
\* its file.
ChmodRan ==
    \/ call.op = "chmodAt" /\ pc = "fn_ret"
    \/ call.op = "fchmod" /\ pc = "done" /\ call.dirFD \in DOMAIN fdTable

ChmodTarget == IF call.op = "chmodAt" THEN loc.found ELSE fdTable[call.dirFD].dirent

ChmodErr == IF call.op = "chmodAt" THEN loc.ferr ELSE ret.err

\* The places of the events of a kind in the log.
EventsOf(ev) == {i \in DOMAIN log : log[i].ev = ev}

\* C27. chmod on a file the caller does not own returns EPERM with no
\* SetPermissions, no notification and every inode as it was; a chmod that
\* returns nil made one SetPermissions call, which set the bits of the
\* request, and one IN_ATTRIB notification after it; one that fails made no
\* notification and changed nothing.
ChmodNeedsOwnership ==
    ChmodRan =>
        IF ChmodTarget \in NotOwned
        THEN /\ ChmodErr = "EPERM"
             /\ EventsOf("SetPermissions") = {}
             /\ EventsOf("InotifyEvent") = {}
             /\ inodes = InitInodes
        ELSE IF ChmodErr = "nil"
        THEN /\ \E i \in DOMAIN log :
                   /\ EventsOf("SetPermissions") = {i}
                   /\ EventsOf("InotifyEvent") = {i + 1}
                   /\ log[i].node = ChmodTarget /\ log[i].ok
                   /\ log[i].perms = call.mode.bits
                   /\ log[i + 1].node = ChmodTarget /\ log[i + 1].name = "IN_ATTRIB"
             /\ inodes = [InitInodes EXCEPT ![ChmodTarget].mode = call.mode.bits]
        ELSE /\ ChmodErr = "EPERM"
             /\ EventsOf("InotifyEvent") = {}
             /\ inodes = InitInodes

\* The owner's chmod returned nil and set the setuid bit.
ChmodWitness ==
    /\ ChmodRan
    /\ ChmodErr = "nil"
    /\ "S_ISUID" \in inodes[ChmodTarget].mode
    /\ EventsOf("InotifyEvent") # {}

\* chmod of somebody else's file was refused.
ChmodRefusedWitness ==
    /\ call.op = "chmodAt"
    /\ Returned
    /\ loc.found = "f"
    /\ ret.err = "EPERM"

\* The request of the syscall names a time to set a timestamp to.
AsksSpecificTime == call.times # <<>> /\ "set" \in {call.times[1], call.times[2]}

\* The TimeSpec handed to utimes sets a timestamp to a time it carries.
SpecSetsSpecificTime ==
    \/ ~call.ts.ATimeOmit /\ ~call.ts.ATimeSetSystemTime
    \/ ~call.ts.MTimeOmit /\ ~call.ts.MTimeSetSystemTime

\* C28. SetTimestamps on a file the caller does not own is only invoked for
\* a request that names no specific time, and only with write permission on
\* the file.
NonOwnerSetsOnlySystemTime ==
    call.op = "utimes" =>
        \A i \in EventsOf("SetTimestamps") :
            log[i].node \in NotOwned =>
                /\ ~AsksSpecificTime
                /\ CheckPermission(fsys, log[i].node, {"w"}) = "nil"

\* The same of the TimeSpec the syscall made of the request.
NonOwnerSpecSetsOnlySystemTime ==
    call.op = "utimes" =>
        \A i \in EventsOf("SetTimestamps") :
            log[i].node \in NotOwned =>
                /\ ~SpecSetsSpecificTime
                /\ CheckPermission(fsys, log[i].node, {"w"}) = "nil"

\* The owner set both timestamps to the times of the request.
OwnerSetsSpecificTime ==
    /\ call.op = "utimes"
    /\ Returned
    /\ ret.err = "nil"
    /\ loc.found = "rf"
    /\ inodes["rf"].atime = "t1"
    /\ inodes["rf"].mtime = "t1"

\* The outcome of a step of fileOpOn is that of the walk of its path from
\* the directory start: the walk's error is returned, or the closure is
\* entered with the walk's dirent.
ResolvesFrom(start) ==
    LET walk == WalkFrom(fsys, RootDirectory, start, loc.path.comps, loc.resolve,
                         MaxSymlinkTraversals)
    IN /\ loc'.looked
       /\ IF walk.err # "nil"
          THEN pc' = "done" /\ ret'.err = walk.err
          ELSE pc' # "done" /\ loc'.d = walk.d

\* The step takes no reference of any open file.
NoFileLookedUp ==
    \A fd \in DOMAIN fdTable :
        CopiesIn(FileRef(fdTable[fd].id), refs'.acq) = CopiesIn(FileRef(fdTable[fd].id), refs.acq)

\* The step returns err before any lookup and without entering the closure.
FailsBeforeLookup(err) ==
    /\ pc' = "done"
    /\ ret'.err = err
    /\ ~loc'.looked
    /\ log' = log
    /\ fsys' = fsys

\* C29. A step of fileOpOn resolves an absolute path from the root without
\* looking up dirFD, a relative path with AT_FDCWD from the working
\* directory, and any other relative path from the directory of dirFD; a
\* dirFD that is not open returns EBADF and one that is no directory ENOTDIR,
\* both before the lookup and without the closure.
FileOpOnStartsAtAnchor ==
    [][pc = "fileOpOn" =>
          IF loc.path.abs THEN ResolvesFrom(RootDirectory) /\ NoFileLookedUp
          ELSE IF call.dirFD = AT_FDCWD THEN ResolvesFrom(WorkingDirectory) /\ NoFileLookedUp
          ELSE IF call.dirFD \notin DOMAIN fdTable
          THEN FailsBeforeLookup("EBADF") /\ NoFileLookedUp
          ELSE IF fsys.attr[fdTable[call.dirFD].dirent].type # "dir"
          THEN FailsBeforeLookup("ENOTDIR")
          ELSE ResolvesFrom(fdTable[call.dirFD].dirent)]_vars

\* An absolute path was resolved, and its file opened, under a dirFD that is
\* not open.
AbsoluteIgnoresAnchorWitness ==
    /\ call.op = "openAt"
    /\ call.path.abs
    /\ call.path.comps # <<>>
    /\ call.dirFD \notin DOMAIN InitFdTable
    /\ call.dirFD # AT_FDCWD
    /\ Returned
    /\ ret.err = "nil"
    /\ loc.looked

\* The closure of an open without O_CREAT and O_DIRECTORY has returned; the
\* path had a trailing slash and names a node that is no directory.
OpenOfNonDirWithSlash ==
    /\ call.op = "openAt"
    /\ call.dirPath
    /\ "O_DIRECTORY" \notin call.flags
    /\ pc = "fn_ret"
    /\ InitFsys.attr[loc.found].type # "dir"

\* mknod was called on a path with a trailing slash.
MknodWithSlash == call.op = "mknodAt" /\ call.dirPath

\* Nothing was opened and nothing created.
NothingOpenedOrCreated ==
    /\ fsys = InitFsys
    /\ fdTable = InitFdTable
    /\ EventsOf("GetFile") = {}
    /\ Creations = {}

MknodSlashWitness ==
    /\ MknodWithSlash
    /\ Returned
    /\ ret.err = "ENOENT"

\* C31. Every ReleaseFDs returned exactly the fds added since the
\* ReleaseFDs before it, in the order they were added (none when none was
\* added), and the tracker tracks exactly the fds added since the last
\* ReleaseFDs: none right after one.
ReleaseReturnsAdded ==
    /\ \A i \in DOMAIN tracker.released : tracker.released[i].fds = tracker.released[i].added
    /\ Elems(tracker.heap, tracker.fds) = tracker.added

\* Two ReleaseFDs returned fds, one returned none, and fds were added since.
ReleaseReturnsAddedWitness ==
    /\ Len(tracker.released) = 3
    /\ Len(tracker.released[1].fds) = 2
    /\ tracker.released[2].fds = <<>>
    /\ Len(tracker.released[3].fds) = 1
    /\ tracker.added # <<>>

\* C39. The list a ReleaseFDs returned still has the length and the
\* elements it had when it was returned.
ReleasedListKept ==
    \A i \in DOMAIN tracker.released :
        /\ tracker.released[i].ret.len = Len(tracker.released[i].fds)
        /\ Elems(tracker.heap, tracker.released[i].ret) = tracker.released[i].fds

\* C32. createAt asks the backend to create only a name that the directory
\* it asks does not hold: no Create names an entry that exists.
CreateOnlyWhenNotFound ==
    call.op = "createAt" =>
        \A i \in DOMAIN log :
            log[i].ev = "Create" => log[i].name \notin DOMAIN InitFsys.children[log[i].node]

\* The final component of the call's path is a symlink the backend resolves
\* directly to a node.
FinalIsDirectLink ==
    /\ FinalExists(call)
    /\ InitFsys.attr[FinalNode(call)].type = "symlink"
    /\ InitFsys.attr[FinalNode(call)].link = "direct"

\* C33. createAt on a symlink that Getlink resolves checks, truncates,
\* opens, installs and notifies the node Getlink returned, never the
\* symlink.
CreateAtOpensResolvedNode ==
    (call.op = "createAt" /\ FinalIsDirectLink) =>
        /\ \A i \in DOMAIN log :
              log[i].ev \in {"CheckPermission", "Truncate", "GetFile", "NewFDFrom",
                             "InotifyEvent"}
                 => log[i].node = InitFsys.attr[FinalNode(call)].tnode
        /\ \A fd \in DOMAIN fdTable \ DOMAIN InitFdTable :
              fdTable[fd].dirent = InitFsys.attr[FinalNode(call)].tnode

MemfdReleasesRefs ==
    (call.op = "memfd_create" /\ Returned) =>
        \A o \in BagToSet(refs.cacq) \cup BagToSet(refs.crel) :
            CopiesIn(o, refs.crel) = CopiesIn(o, refs.cacq)

\* createAt's closure is entered: fileOpAt has just called it.
CreateAtEntered == call.op = "createAt" /\ pc = "createAt_loop" /\ loc.hops = 0

\* What fileOpOn finds for the parent path of the call, symlinks followed.
ParentPathWalk == fileOpOn(InitFsys, fdTable, call.dirFD, SplitLast(call.path).dir, TRUE)

\* C36. When the parent path is "/" the closure gets the root, when it is
\* "." with AT_FDCWD the working directory, both with the full budget and
\* with no lookup made, and that is the parent fileOpOn would find for the
\* parent path; in every other case the parent is the one fileOpOn found,
\* with the budget it left.  The name is the last component in all cases.
FastPathsAsWalk ==
    CreateAtEntered =>
        LET dir == SplitLast(call.path).dir
            fast == dir = RootPath \/ (dir = DotPath /\ call.dirFD = AT_FDCWD)
        IN /\ loc.name = SplitLast(call.path).name
           /\ ParentPathWalk.err = "nil"
           /\ loc.parent = ParentPathWalk.d
           /\ loc.remainingTraversals = ParentPathWalk.rem
           /\ loc.root = RootDirectory
           /\ fast <=> ~loc.looked
           /\ fast => /\ loc.remainingTraversals = MaxSymlinkTraversals
                      /\ loc.parent = IF dir = RootPath THEN RootDirectory
                                      ELSE WorkingDirectory

\* The closure was entered on the root fast path.
FastPathRootWitness ==
    CreateAtEntered /\ SplitLast(call.path).dir = RootPath /\ ~loc.looked
        /\ loc.parent = RootDirectory

\* The closure was entered on the working-directory fast path.
FastPathWdWitness ==
    CreateAtEntered /\ SplitLast(call.path).dir = DotPath /\ call.dirFD = AT_FDCWD
        /\ ~loc.looked /\ loc.parent = WorkingDirectory

\* The closure was entered after a walk that followed a symlink in the parent path.
FullWalkWitness ==
    CreateAtEntered /\ loc.looked /\ loc.remainingTraversals < MaxSymlinkTraversals

\* The file fallocate was called on, when the descriptor is open.
FallocFile == fdTable[call.dirFD]

\* The error the rejection order gives a fallocate call on an open
\* descriptor, "" when every test passes; the sum is the integers' own.
FallocRejection ==
    LET t == fsys.attr[FallocFile.dirent].type
    IN IF call.offset < 0 \/ call.length <= 0 THEN "EINVAL"
       ELSE IF call.allocMode # 0 THEN "ENOTSUP"
       ELSE IF ~FallocFile.write THEN "EBADF"
       ELSE IF t = "fifo" THEN "ESPIPE"
       ELSE IF t = "dir" THEN "EISDIR"
       ELSE IF t # "reg" THEN "ENODEV"
       ELSE IF call.offset + call.length > MaxInt THEN "EFBIG"
       ELSE IF call.offset + call.length >= rlimit THEN "EFBIG+SIGXFSZ"
       ELSE ""

UtimensatWithTimes ==
    /\ call.op = "utimes"
    /\ call.syscall = "utimensat"
    /\ call.times # <<>>
    /\ "invalid" \notin {call.times[1], call.times[2]}
    /\ {call.times[1], call.times[2]} # {"omit"}

\* C38. The TimeSpec Utimensat hands to utimes sets the modification time to
\* the system time iff times[1].Nsec is UTIME_NOW and the access time iff
\* times[0].Nsec is UTIME_NOW, and a SetTimestamps that succeeded left the
\* timestamps accordingly.
UtimensatNowPerTimespec ==
    UtimensatWithTimes =>
        /\ call.ts.ATimeSetSystemTime <=> call.times[1] = "now"
        /\ call.ts.MTimeSetSystemTime <=> call.times[2] = "now"
        /\ \A i \in EventsOf("SetTimestamps") :
              log[i].ok =>
                 /\ inodes[log[i].node].atime = "now" <=> call.times[1] = "now"
                 /\ inodes[log[i].node].mtime = "now" <=> call.times[2] = "now"

\* The checks of chown refuse the request: an id is not mapped or the
\* reference rule does not allow it.
ChownRefused ==
    \/ ChownOf.uid = Unmapped
    \/ ChownOf.gid = Unmapped
    \/ ~UIDAllowed
    \/ ~GIDAllowed

\* C40. A chown whose uid or gid the checks refuse returns EINVAL or EPERM
\* with no SetOwner and no SetPermissions made and the file's attributes as
\* they were, also when only the gid is refused; and a chown that returned
\* EINVAL or EPERM without SetOwner changed nothing.
ChownChecksBeforeMutation ==
    (ChownOf.pc # "idle" /\ ~ChownUnread) =>
        /\ ChownRefused =>
              /\ ChownOf.pc = "done"
              /\ ChownOf.err \in {"EINVAL", "EPERM"}
              /\ ~LogHas("SetOwner")
              /\ ~LogHas("SetPermissions")
              /\ inodes[ChownOf.d] = ChownOf.uattr
        /\ (ChownOf.pc = "done" /\ ChownOf.err \in {"EINVAL", "EPERM"} /\ ~LogHas("SetOwner")) =>
              /\ ChownRefused
              /\ log = <<>>
              /\ inodes = [n \in DOMAIN inodes |->
                              IF n = ChownOf.d THEN ChownOf.uattr ELSE inodes[n]]

\* The owner asked for the uid the file has, which is allowed, and for a
\* group they are not a member of: EPERM, and nothing was changed.
ChownGidRefusedWitness ==
    /\ ChownOf.pc = "done"
    /\ ChownOf.err = "EPERM"
    /\ ChownOf.uid \notin {NoID, Unmapped}
    /\ UIDAllowed
    /\ ChownOf.gid # Unmapped
    /\ ~GIDAllowed
    /\ log = <<>>
    /\ inodes[ChownOf.d] = ChownOf.uattr

====
